---- MODULE Spec2Model ----
(***************************************************************************)
(* The natural-language QA pipeline of src/src/mcp_server: the parser      *)
(* (parser.py), the action executor (actions.py) and the test orchestrator *)
(* (server.py), over the browser session of src/src/automation, and the    *)
(* step mode of the agent server (agent_server.py, browser_agent.py).      *)
(*                                                                         *)
(* Python strings are modelled as sequences of word tokens: "" is <<>>,    *)
(* "laptop" is <<"laptop">>.  A parameters dict is a function whose        *)
(* DOMAIN is the set of keys present.  An exception is a record with       *)
(* raised = TRUE and the text of str(e).                                   *)
(***************************************************************************)
EXTENDS Integers, Sequences, FiniteSets, TLC

\* Longest action list handed to execute_actions or returned by the LLM.
MaxActions == 2

\* Longest list of steps handed to execute_test_steps.
MaxSteps == 2

\* None for the two datetime fields; datetime.now() is a clock value >= 1.
None == 0

EmptyStr == <<>>
EmptyDict == [k \in {} |-> EmptyStr]

(***************************************************************************)
(* actions.py: ActionType, Action                                          *)
(***************************************************************************)
ActionType ==
    {"navigate", "search", "click", "fill", "add_to_cart", "go_to_cart",
     "checkout", "verify_text", "verify_element", "verify_url",
     "screenshot", "select_variant"}

\* An enum value that is no key of the handlers mapping of _dispatch_action.
UnknownKind == "unknown_kind"

VerifyKinds == {"verify_text", "verify_element", "verify_url"}

\* Action.__init__: description defaults to "Execute <value>".
Action(action_type, parameters, description) ==
    [action_type |-> action_type,
     parameters  |-> parameters,
     description |-> IF description = EmptyStr
                     THEN <<"Execute", action_type>>
                     ELSE description]

\* x = parameters.get(k);  `not x`  and  `x is None`
Has(p, k) == k \in DOMAIN p
Falsy(p, k) == ~Has(p, k) \/ p[k] = EmptyStr
IsNone(p, k) == ~Has(p, k)

\* The parameters each handler reads and requires.
Required(kind) ==
    CASE kind = "navigate"       -> {"url"}
      [] kind = "search"         -> {"term"}
      [] kind = "click"          -> {"selector"}
      [] kind = "fill"           -> {"selector", "text"}
      [] kind = "verify_text"    -> {"selector", "text"}
      [] kind = "verify_element" -> {"selector"}
      [] kind = "verify_url"     -> {"url"}
      [] kind = "select_variant" -> {"type", "value"}
      [] OTHER                   -> {}

(***************************************************************************)
(* The browser session seen by one handler call.  page is the state of     *)
(* BrowserAutomation.page: "none" (never started), "open", "closed".       *)
(* beh is what the page does with the operation:                           *)
(*   "ok"           the operation completes (a verified condition holds)   *)
(*   "raise"        the underlying Playwright call raises                  *)
(*   "cond_false"   the checked condition is false                         *)
(*   "elem_missing" query_selector finds no element                        *)
(***************************************************************************)
PageStates == {"none", "open", "closed"}
Behaviours == {"ok", "raise", "cond_false", "elem_missing"}

\* What a handler hands back: it returned data, or it raised error.
\* calls counts the calls made into BrowserAutomation, ShopifyActions
\* or Verifications.
Returned(data, calls) ==
    [raised |-> FALSE, error |-> "", data |-> data, calls |-> calls]
Raised(error, calls) ==
    [raised |-> TRUE, error |-> error, data |-> EmptyDict, calls |-> calls]

\* browser.py: every BrowserAutomation operation starts with
\* `if not self.page: raise RuntimeError(...)` and re-raises what the page raises.
BrowserOp(page, beh, data) ==
    IF page = "none" THEN Raised("Browser not started. Call start() first.", 1)
    ELSE IF page = "closed" \/ beh # "ok" THEN Raised("page operation failed", 1)
    ELSE Returned(data, 1)

\* shopify.py: the selector loops swallow every exception and raise their
\* own RuntimeError after the last selector.
ShopifyOp(page, beh, data, error) ==
    IF page = "open" /\ beh = "ok" THEN Returned(data, 1) ELSE Raised(error, 1)

\* actions.py _get_verifications: None while browser.page is None.
GetVerifications(page) == page # "none"

NoVerifications == "'NoneType' object has no attribute"

\* What the page can do with the operation of each kind.  page.url (read by
\* verify_url_contains) never raises; wait_for_selector (verify_element_present)
\* either finds the element or raises.
BehavioursFor(kind) ==
    CASE kind = "verify_text"    -> Behaviours
      [] kind = "verify_element" -> {"ok", "raise", "elem_missing"}
      [] kind = "verify_url"     -> {"ok", "cond_false"}
      [] kind = UnknownKind      -> {"ok"}
      [] OTHER                   -> {"ok", "raise"}

\* str(config.screenshots_dir / f"{name}.png")
ScreenshotPath(name) == [dir |-> "screenshots_dir", name |-> name, ext |-> "png"]

(***************************************************************************)
(* actions.py: the handlers                                                *)
(***************************************************************************)
HandleNavigate(action, page, beh) ==
    LET p == action.parameters IN
    IF Falsy(p, "url")
    THEN Raised("URL parameter required for navigate action", 0)
    ELSE BrowserOp(page, beh, [url |-> p["url"]])

HandleSearch(action, page, beh) ==
    LET p == action.parameters IN
    IF Falsy(p, "term")
    THEN Raised("Term parameter required for search action", 0)
    ELSE ShopifyOp(page, beh, [search_term |-> p["term"]],
                   "Could not find search input on the page")

HandleClick(action, page, beh) ==
    LET p == action.parameters IN
    IF Falsy(p, "selector")
    THEN Raised("Selector parameter required for click action", 0)
    ELSE BrowserOp(page, beh, [selector |-> p["selector"]])

HandleFillNoTextCheck(action, page, beh) ==
    LET p == action.parameters IN
    IF Falsy(p, "selector")
    THEN Raised("Selector and text parameters required for fill action", 0)
    ELSE BrowserOp(page, beh, [selector |-> p["selector"]])

\* `if not selector or text is None`
HandleFill(action, page, beh) ==
    LET p == action.parameters IN
    IF Falsy(p, "selector") \/ IsNone(p, "text")
    THEN Raised("Selector and text parameters required for fill action", 0)
    ELSE BrowserOp(page, beh, [selector |-> p["selector"]])

HandleAddToCart(action, page, beh) ==
    ShopifyOp(page, beh, EmptyDict, "Could not find 'Add to Cart' button")

\* shopify.go_to_cart falls back to browser.navigate_to(base_url + "/cart").
HandleGoToCart(action, page, beh) == BrowserOp(page, beh, EmptyDict)

HandleCheckout(action, page, beh) ==
    ShopifyOp(page, beh, EmptyDict, "Could not find checkout button")

\* verifications.py verify_text_contains
VerifyTextContains(page, beh) ==
    IF page = "closed" \/ beh = "raise" THEN "Failed to verify text in selector"
    ELSE IF beh = "elem_missing" THEN "Element not found"
    ELSE IF beh = "cond_false" THEN "Text not found in element"
    ELSE ""

HandleVerifyTextNoneCheck(action, page, beh) ==
    LET p == action.parameters IN
    IF Falsy(p, "selector") \/ IsNone(p, "text")
    THEN Raised("Selector and text parameters required for verify_text action", 0)
    ELSE IF ~GetVerifications(page) THEN Raised(NoVerifications, 0)
    ELSE IF VerifyTextContains(page, beh) = ""
         THEN Returned([selector |-> p["selector"], text |-> p["text"]], 1)
         ELSE Raised(VerifyTextContains(page, beh), 1)

HandleVerifyTextSoft(action, page, beh) ==
    LET p == action.parameters IN
    IF Falsy(p, "selector") \/ Falsy(p, "text")
    THEN Raised("Selector and text parameters required for verify_text action", 0)
    ELSE IF ~GetVerifications(page) THEN Raised(NoVerifications, 0)
    ELSE IF VerifyTextContains(page, beh) \in {"", "Text not found in element"}
         THEN Returned([selector |-> p["selector"], text |-> p["text"]], 1)
         ELSE Raised(VerifyTextContains(page, beh), 1)

HandleVerifyText(action, page, beh) ==
    LET p == action.parameters IN
    IF Falsy(p, "selector") \/ Falsy(p, "text")
    THEN Raised("Selector and text parameters required for verify_text action", 0)
    ELSE IF ~GetVerifications(page) THEN Raised(NoVerifications, 0)
    ELSE IF VerifyTextContains(page, beh) = ""
         THEN Returned([selector |-> p["selector"], text |-> p["text"]], 1)
         ELSE Raised(VerifyTextContains(page, beh), 1)

\* verifications.py verify_element_present: any failure of wait_for_selector
\* becomes VerificationError("Element not found: ...").
HandleVerifyElement(action, page, beh) ==
    LET p == action.parameters IN
    IF Falsy(p, "selector")
    THEN Raised("Selector parameter required for verify_element action", 0)
    ELSE IF ~GetVerifications(page) THEN Raised(NoVerifications, 0)
    ELSE IF page = "open" /\ beh = "ok"
         THEN Returned([selector |-> p["selector"]], 1)
         ELSE Raised("Element not found", 1)

\* verifications.py verify_url_contains reads page.url, which a closed page
\* still answers.
HandleVerifyUrl(action, page, beh) ==
    LET p == action.parameters IN
    IF Falsy(p, "url")
    THEN Raised("URL parameter required for verify_url action", 0)
    ELSE IF ~GetVerifications(page) THEN Raised(NoVerifications, 0)
    ELSE IF beh = "ok"
         THEN Returned([url |-> p["url"]], 1)
         ELSE Raised("URL doesn't contain expected part", 1)

HandleScreenshot(action, page, beh) ==
    LET p == action.parameters
        name == IF Has(p, "name") THEN p["name"] ELSE <<"screenshot">>
    IN BrowserOp(page, beh, [screenshot_path |-> ScreenshotPath(name)])

HandleSelectVariant(action, page, beh) ==
    LET p == action.parameters IN
    IF Falsy(p, "type") \/ Falsy(p, "value")
    THEN Raised("Type and value parameters required for select_variant action", 0)
    ELSE BrowserOp(page, beh,
                   [variant_type |-> p["type"], variant_value |-> p["value"]])

\* The handlers mapping of _dispatch_action.
Handler(action, page, beh) ==
    LET k == action.action_type IN
    CASE k = "navigate"       -> HandleNavigate(action, page, beh)
      [] k = "search"         -> HandleSearch(action, page, beh)
      [] k = "click"          -> HandleClick(action, page, beh)
      [] k = "fill"           -> HandleFill(action, page, beh)
      [] k = "add_to_cart"    -> HandleAddToCart(action, page, beh)
      [] k = "go_to_cart"     -> HandleGoToCart(action, page, beh)
      [] k = "checkout"       -> HandleCheckout(action, page, beh)
      [] k = "verify_text"    -> HandleVerifyText(action, page, beh)
      [] k = "verify_element" -> HandleVerifyElement(action, page, beh)
      [] k = "verify_url"     -> HandleVerifyUrl(action, page, beh)
      [] k = "screenshot"     -> HandleScreenshot(action, page, beh)
      [] k = "select_variant" -> HandleSelectVariant(action, page, beh)

DispatchActionNoDefault(action, page, beh) ==
    IF action.action_type \notin ActionType
    THEN Returned(EmptyDict, 0)
    ELSE Handler(action, page, beh)

\* _dispatch_action: handlers.get(action.action_type), ValueError when absent.
DispatchAction(action, page, beh) ==
    IF action.action_type \notin ActionType
    THEN Raised("Unknown action type", 0)
    ELSE Handler(action, page, beh)

\* What execute hands its caller: a result dict, or an exception (raised).
ExecuteUnwrapped(action, page, beh) ==
    LET r == DispatchAction(action, page, beh) IN
    IF r.raised
    THEN [raised |-> TRUE, exc |-> r.error, result |-> EmptyDict, calls |-> r.calls]
    ELSE [raised |-> FALSE, exc |-> "", calls |-> r.calls,
          result |-> r.data @@ [status |-> "success", action |-> action.action_type]]

\* ActionExecutor.execute: try _dispatch_action, except Exception -> error dict.
Execute(action, page, beh) ==
    LET r == DispatchAction(action, page, beh) IN
    [raised |-> FALSE, exc |-> "", calls |-> r.calls,
     result |-> IF r.raised
                THEN [status |-> "error", action |-> action.action_type,
                      error |-> r.error]
                ELSE r.data @@ [status |-> "success", action |-> action.action_type]]

(***************************************************************************)
(* parser.py: the rule-based strategy.  An instruction is a sequence of    *)
(* tokens: words, fixed phrases ("go to", "add to cart"), quote marks and  *)
(* the separators of the split pattern.                                    *)
(***************************************************************************)
\* re.split(r'[.!?\n]|(?:\d+\.)', instruction)
Separators == {".", "!", "?", "\n", "1.", "2.", "3."}
Quotes == {"'", "\""}

\* str.lower() on the tokens the instructions below use.
Lower(t) ==
    CASE t = "Go to"       -> "go to"
      [] t = "Search"      -> "search"
      [] t = "Add to cart" -> "add to cart"
      [] t = "Take"        -> "take"
      [] t = "Verify"      -> "verify"
      [] t = "Click"       -> "click"
      [] t = "Laptop"      -> "laptop"
      [] t = "Visit"       -> "visit"
      [] t = "Quit"        -> "quit"
      [] OTHER             -> t

LowerStr(s) == [n \in 1..Len(s) |-> Lower(s[n])]

\* The keywords a token contains as substrings.
Subs(t) ==
    CASE t = "homepage"            -> {"homepage", "page"}
      [] t = "home page"           -> {"home page", "page"}
      [] t = "add to cart"         -> {"add to cart", "cart"}
      [] t = "checkout"            -> {"checkout", "check"}
      [] t = "proceed to checkout" -> {"proceed to checkout", "checkout", "check"}
      [] OTHER                     -> {t}

\* `kw in step_lower`
In(kw, s) == \E n \in 1..Len(s) : kw \in Subs(s[n])
AnyIn(kws, s) == \E kw \in kws : In(kw, s)

\* steps = [s.strip() for s in steps if s.strip()]
RECURSIVE SplitSteps(_, _)
SplitSteps(toks, cur) ==
    LET flush == IF cur = <<>> THEN <<>> ELSE <<cur>> IN
    IF toks = <<>> THEN flush
    ELSE IF Head(toks) \in Separators
         THEN flush \o SplitSteps(Tail(toks), <<>>)
         ELSE SplitSteps(Tail(toks), Append(cur, Head(toks)))

\* ([^"']+): the longest run without a quote mark.
RECURSIVE UntilQuote(_)
UntilQuote(s) ==
    IF s = <<>> \/ Head(s) \in Quotes THEN <<>>
    ELSE <<Head(s)>> \o UntilQuote(Tail(s))

\* The tail  (?:opt )?["']?([^"']+)["']?  of the extraction patterns on what
\* follows the head word, in the regex's order of preference (both optional
\* groups are greedy and are given up only when the capture would be empty).
Capture(rest, opts) ==
    LET skipOpt == Len(rest) > 1 /\ Head(rest) \in opts
        afterOpt == IF skipOpt THEN Tail(rest) ELSE rest
        c1 == IF skipOpt /\ Head(afterOpt) \in Quotes
              THEN UntilQuote(Tail(afterOpt)) ELSE <<>>
        c2 == IF skipOpt THEN UntilQuote(afterOpt) ELSE <<>>
        c3 == IF rest # <<>> /\ Head(rest) \in Quotes
              THEN UntilQuote(Tail(rest)) ELSE <<>>
        c4 == UntilQuote(rest)
    IN  IF c1 # <<>> THEN c1
        ELSE IF c2 # <<>> THEN c2
        ELSE IF c3 # <<>> THEN c3
        ELSE c4

\* re.search(head + ' ' + tail, step_lower): group(1).strip() of the first
\* match, <<>> when there is none.
RECURSIVE MatchFrom(_, _, _, _)
MatchFrom(s, n, heads, opts) ==
    IF n > Len(s) THEN <<>>
    ELSE LET c == Capture(SubSeq(s, n + 1, Len(s)), opts) IN
         IF s[n] \in heads /\ c # <<>> THEN c
         ELSE MatchFrom(s, n + 1, heads, opts)

\* re.search(r'["\']([^"\']+)["\']', step): the first quoted run.
RECURSIVE Quoted(_)
Quoted(s) ==
    IF s = <<>> THEN <<>>
    ELSE LET run == UntilQuote(Tail(s)) IN
         IF Head(s) \in Quotes /\ run # <<>> /\ Len(Tail(s)) > Len(run)
         THEN run
         ELSE Quoted(Tail(s))

\* The body of `for step in steps`: the if/elif chain, zero or one Action.
ParseStep(step) ==
    LET sl == LowerStr(step) IN
    IF AnyIn({"go to", "navigate to", "visit", "open"}, sl)
    THEN IF AnyIn({"homepage", "home page"}, sl)
         THEN <<Action("navigate", [url |-> <<"homepage">>], <<"Navigate to homepage">>)>>
         ELSE IF In("cart", sl)
         THEN <<Action("go_to_cart", EmptyDict, <<"Navigate to cart">>)>>
         ELSE <<>>
    ELSE IF In("search", sl)
    THEN LET term == MatchFrom(sl, 1, {"search"}, {"for"}) IN
         IF term # <<>>
         THEN <<Action("search", [term |-> term], <<"Search for">> \o term)>>
         ELSE <<>>
    ELSE IF AnyIn({"add to cart", "add product"}, sl)
    THEN <<Action("add_to_cart", EmptyDict, <<"Add product to cart">>)>>
    ELSE IF In("checkout", sl)
    THEN <<Action("checkout", EmptyDict, <<"Proceed to checkout">>)>>
    ELSE IF In("click", sl)
    THEN LET element == MatchFrom(sl, 1, {"click"}, {"on", "the"}) IN
         IF element # <<>>
         THEN <<Action("click",
                       [selector |-> <<"button:has-text(">> \o element \o <<")">>],
                       <<"Click">> \o element)>>
         ELSE <<>>
    ELSE IF AnyIn({"select", "choose"}, sl)
    THEN LET value == MatchFrom(sl, 1, {"select", "choose"}, {"size", "color"})
             type == IF In("size", sl) THEN <<"Size">> ELSE <<"Option">>
         IN  IF value # <<>>
             THEN <<Action("select_variant", [type |-> type, value |-> value],
                           <<"Select">> \o type \o <<":">> \o value)>>
             ELSE <<>>
    ELSE IF AnyIn({"verify", "check", "assert"}, sl)
    THEN IF AnyIn({"url", "page"}, sl)
         THEN LET part == MatchFrom(sl, 1, {"contain", "contains"}, {}) IN
              IF part # <<>>
              THEN <<Action("verify_url", [url |-> part],
                            <<"Verify URL contains">> \o part)>>
              ELSE <<>>
         ELSE IF AnyIn({"text", "contains"}, sl)
         THEN LET text == Quoted(step) IN
              IF text # <<>>
              THEN <<Action("verify_text", [selector |-> <<"body">>, text |-> text],
                            <<"Verify text:">> \o text)>>
              ELSE <<>>
         ELSE <<>>
    ELSE IF AnyIn({"screenshot", "capture"}, sl)
    THEN <<Action("screenshot", EmptyDict, <<"Take screenshot">>)>>
    ELSE <<>>

RECURSIVE ParseStepsReversed(_)
ParseStepsReversed(steps) ==
    IF steps = <<>> THEN <<>>
    ELSE ParseStepsReversed(Tail(steps)) \o ParseStep(Head(steps))

RECURSIVE ParseStepsUntilNoAction(_)
ParseStepsUntilNoAction(steps) ==
    IF steps = <<>> \/ ParseStep(Head(steps)) = <<>> THEN <<>>
    ELSE ParseStep(Head(steps)) \o ParseStepsUntilNoAction(Tail(steps))

RECURSIVE ParseSteps(_)
ParseSteps(steps) ==
    IF steps = <<>> THEN <<>>
    ELSE ParseStep(Head(steps)) \o ParseSteps(Tail(steps))

\* _parse_with_rules
ParseWithRules(instruction) == ParseSteps(SplitSteps(instruction, <<>>))

(***************************************************************************)
(* parser.py: the LLM strategy.  What llm.ainvoke does is a record:        *)
(*   kind "raises"   the call raises                                       *)
(*   kind "prose"    text holding no JSON                                  *)
(*   kind "badjson"  text shaped [{...}] that json.loads rejects           *)
(*   kind "scalar"   a JSON number, true or null                           *)
(*   kind "object"   a JSON object; items holds one entry per key          *)
(*   kind "array"    a JSON array of items, wrapped in prose or bare       *)
(* An item is a JSON object (obj = TRUE, d its members) or any other JSON  *)
(* value (obj = FALSE).                                                    *)
(***************************************************************************)
NonObject == [obj |-> FALSE, d |-> EmptyDict]
JsonObject(d) == [obj |-> TRUE, d |-> d]

ParseOk(actions, fallback) ==
    [raised |-> FALSE, actions |-> actions, fallback |-> fallback]
ParseRaised == [raised |-> TRUE, actions |-> <<>>, fallback |-> FALSE]

\* _extract_json_from_response: re.search(r'\[\s*\{.*\}\s*\]') then json.loads
\* of the match, else json.loads of the whole response.
ExtractJson(resp) ==
    LET n == Len(resp.items)
        matches == resp.kind = "badjson"
                   \/ (resp.kind = "array" /\ n > 0
                       /\ resp.items[1].obj /\ resp.items[n].obj)
    IN  IF matches
        THEN IF resp.kind = "badjson"
             THEN [raised |-> TRUE, iterable |-> FALSE, items |-> <<>>]
             ELSE [raised |-> FALSE, iterable |-> TRUE, items |-> resp.items]
        ELSE IF resp.kind = "prose" \/ (resp.kind = "array" /\ resp.wrapped)
        THEN [raised |-> TRUE, iterable |-> FALSE, items |-> <<>>]
        ELSE [raised |-> FALSE, iterable |-> resp.kind # "scalar",
              items |-> resp.items]

\* The loop body of _parse_with_llm: ActionType(action_data["action_type"])
\* raises KeyError or ValueError, which the inner except skips.
ItemSkipped(item) ==
    ~Has(item.d, "action_type") \/ item.d["action_type"] \notin ActionType

ItemAction(item) ==
    Action(item.d["action_type"],
           IF Has(item.d, "parameters") THEN item.d["parameters"] ELSE EmptyDict,
           IF Has(item.d, "description") THEN item.d["description"] ELSE EmptyStr)

RECURSIVE ConvertItemsAllOrNothing(_)
ConvertItemsAllOrNothing(items) ==
    IF items = <<>> THEN ParseOk(<<>>, FALSE)
    ELSE IF ~Head(items).obj THEN ParseRaised
    ELSE LET rest == ConvertItemsAllOrNothing(Tail(items)) IN
         IF rest.raised THEN ParseRaised
         ELSE IF ItemSkipped(Head(items)) \/ Len(rest.actions) < Len(Tail(items))
         THEN ParseOk(<<>>, FALSE)
         ELSE ParseOk(<<ItemAction(Head(items))>> \o rest.actions, FALSE)

\* for action_data in actions_data: subscripting anything but a dict raises
\* TypeError, which the inner except does not catch.
RECURSIVE ConvertItems(_)
ConvertItems(items) ==
    IF items = <<>> THEN ParseOk(<<>>, FALSE)
    ELSE IF ~Head(items).obj THEN ParseRaised
    ELSE LET rest == ConvertItems(Tail(items)) IN
         IF rest.raised THEN ParseRaised
         ELSE IF ItemSkipped(Head(items)) THEN rest
         ELSE ParseOk(<<ItemAction(Head(items))>> \o rest.actions, FALSE)

\* The try block of _parse_with_llm, without its except clause.
LLMPath(resp) ==
    IF resp.kind = "raises" THEN ParseRaised
    ELSE LET j == ExtractJson(resp) IN
         IF j.raised \/ ~j.iterable THEN ParseRaised
         ELSE ConvertItems(j.items)

ParseWithLLMNoFallback(resp, instruction) == LLMPath(resp)

ParseWithLLMFallbackOnEmpty(resp, instruction) ==
    IF LLMPath(resp).raised \/ LLMPath(resp).actions = <<>>
    THEN ParseOk(ParseWithRules(instruction), TRUE)
    ELSE LLMPath(resp)

\* _parse_with_llm: except Exception -> _parse_with_rules(instruction)
ParseWithLLM(resp, instruction) ==
    IF LLMPath(resp).raised
    THEN ParseOk(ParseWithRules(instruction), TRUE)
    ELSE LLMPath(resp)

\* NaturalLanguageParser.parse
Parse(hasLLM, resp, instruction) ==
    IF hasLLM THEN ParseWithLLM(resp, instruction)
    ELSE ParseOk(ParseWithRules(instruction), FALSE)

(***************************************************************************)
(* Inputs                                                                  *)
(***************************************************************************)
SeqsUpTo(S, n) == UNION {[1..m -> S] : m \in 0..n}

\* Instructions given to execute_test.
InstructionPool ==
    {<<"Go to", "homepage", "and", "search", "for", "laptop">>,
     <<"Add to cart", "and", "verify", "cart", "has", "items">>,
     <<"1.", "Go to", "the", "homepage", "2.", "Search", "for", "'", "laptop", "'",
       "3.", "Take", "a", "screenshot">>,
     <<"Click", "the", "buy", "button", ".", "Verify", "url", "contains", "cart">>,
     <<"Visit", "the", "store", ".", "Take", "a", "screenshot">>,
     <<"hello", "world">>,
     <<>>}

\* Parameter values: "", "x", "homepage".
ParamVals == {EmptyStr, <<"x">>, <<"homepage">>}

ParamsOf(kind) == IF kind = "screenshot" THEN {"name"} ELSE Required(kind)

\* Every Action over the kinds and parameter values: the inputs of a direct
\* call of ActionExecutor.execute.
AllActions ==
    UNION {{Action(k, p, <<"step">>) :
                p \in UNION {[S -> ParamVals] : S \in SUBSET ParamsOf(k)}} :
           k \in ActionType \cup {UnknownKind}}

\* A list element that is no Action (a dict, None): reading its description
\* raises AttributeError.
NotAnAction ==
    [action_type |-> "not_an_action", parameters |-> EmptyDict, description |-> EmptyStr]

\* The Actions of the lists given to execute_actions.
ActionPool ==
    {Action("navigate", [url |-> <<"x">>], <<"Open x">>),
     Action("fill", EmptyDict, EmptyStr),
     Action("fill", [selector |-> <<"x">>, text |-> EmptyStr], <<"Clear x">>),
     Action("click", [selector |-> EmptyStr], <<"Click nothing">>),
     Action("verify_text", [selector |-> <<"x">>, text |-> <<"x">>], <<"Check text">>),
     Action("verify_url", [url |-> <<"x">>], <<"Check url">>),
     Action("screenshot", EmptyDict, <<"Take screenshot">>),
     Action(UnknownKind, EmptyDict, <<"Unknown">>),
     NotAnAction}

\* The elements of the JSON arrays the language model returns.
LLMItems ==
    {JsonObject([action_type |-> "navigate", parameters |-> [url |-> <<"homepage">>],
                 description |-> <<"Navigate to homepage">>]),
     JsonObject([action_type |-> "screenshot", parameters |-> EmptyDict,
                 description |-> <<"Take screenshot">>]),
     JsonObject([action_type |-> "fill"]),
     JsonObject([action_type |-> "hover", parameters |-> EmptyDict,
                 description |-> <<"Hover">>]),
     JsonObject([parameters |-> EmptyDict, description |-> <<"No type">>]),
     NonObject}

Responses ==
    {[kind |-> k, items |-> <<>>, wrapped |-> FALSE] :
        k \in {"raises", "prose", "badjson", "scalar"}}
    \cup {[kind |-> "object", items |-> its, wrapped |-> FALSE] :
            its \in {<<>>, <<NonObject>>}}
    \cup {[kind |-> "array", items |-> its, wrapped |-> w] :
            its \in SeqsUpTo(LLMItems, MaxActions), w \in BOOLEAN}

\* The response slot when no LLM is configured (parse never reads it).
NoResponse == [kind |-> "none", items |-> <<>>, wrapped |-> FALSE]

(***************************************************************************)
(* server.py: TestResult                                                   *)
(***************************************************************************)
\* TestResult.__init__
NewTestResult ==
    [status |-> "pending", start_time |-> None, end_time |-> None,
     actions_executed |-> <<>>, screenshots |-> <<>>, errors |-> <<>>]

\* No TestResult exists before the call.
NoResult == [NewTestResult EXCEPT !.status = "absent"]

\* The None of duration_ms (0 is a duration).
NoDuration == -1

\* TestResult.duration_ms: None unless both times are set.
DurationMs(r) ==
    IF r.start_time # None /\ r.end_time # None
    THEN r.end_time - r.start_time
    ELSE NoDuration

\* TestResult.passed
Passed(r) == r.status = "passed" /\ Len(r.errors) = 0

\* The strings appended to errors.
ErrorEntry(kind, description, error) ==
    [kind |-> kind, description |-> description, error |-> error]

NoActionsError ==
    ErrorEntry("No actions could be parsed from instruction", EmptyStr, "")

\* f"Action failed: {action.description} - {action_result.get('error', 'Unknown error')}"
ActionFailedError(action, action_result) ==
    ErrorEntry("Action failed", action.description,
               IF "error" \in DOMAIN action_result
               THEN action_result["error"] ELSE "Unknown error")

\* f"error_step_{i + 1}"
Digits == <<"1", "2", "3", "4", "5", "6", "7", "8", "9">>
ErrorStepName(i) == <<"error_step", Digits[i]>>

(***************************************************************************)
(* browser_agent.py: BrowserAgent.  browser is "none" (never built),       *)
(* "open" or "killed"; llm is set.                                         *)
(***************************************************************************)
\* BrowserAgent.__init__, and no BrowserAgent at all.
NewAgent == [exists |-> TRUE, browser |-> "none", llm |-> FALSE]
NoAgent == [NewAgent EXCEPT !.exists = FALSE]

\* BrowserAgent.start with the failAt-th constructor raising (0: none):
\* Browser(...), then ChatBrowserUse().
AgentStarted(failAt) ==
    [exists |-> TRUE,
     browser |-> IF failAt = 1 THEN "none" ELSE "open",
     llm |-> (failAt = 0)]

\* BrowserAgent.stop: `if self.browser: await self.browser.kill()`; an
\* exception of kill is logged and not raised.
AgentStopped(a, killRaises) ==
    IF a.browser = "none" \/ killRaises THEN a ELSE [a EXCEPT !.browser = "killed"]

\* The steps given to execute_test_steps.
StepPool == {<<"Go to", "homepage">>, <<"Search", "for", "laptop">>}

\* result["screenshot"]: None, or the path _save_screenshot_from_history saved.
NoShot == [dir |-> "", name |-> EmptyStr, ext |-> ""]
AgentShot(task) == [dir |-> "screenshots_dir", name |-> <<"agent">> \o task, ext |-> "png"]

\* BrowserAgent.execute_task: RuntimeError before the try when the agent was
\* not started; inside the try, agent.run() either completes (beh "ok") or
\* raises, and saving the screenshot either yields a path (shot) or nothing.
\* What agent.run() does on a killed Browser is the library's affair: both.
ExecuteTask(a, task, beh, shot) ==
    IF a.browser = "none" \/ ~a.llm
    THEN [raised |-> TRUE, exc |-> "Browser Agent not started. Call start() first.",
          result |-> EmptyDict]
    ELSE IF beh = "ok"
    THEN [raised |-> FALSE, exc |-> "",
          result |-> [status |-> "success", message |-> <<"Completed:">> \o task,
                      screenshot |-> IF shot THEN AgentShot(task) ELSE NoShot]]
    ELSE [raised |-> FALSE, exc |-> "",
          result |-> [status |-> "error", message |-> <<"Failed:">> \o task,
                      error |-> "agent run failed"]]

(***************************************************************************)
(* agent_server.py: AgentTestResult                                        *)
(***************************************************************************)
\* AgentTestResult.__init__
NewAgentTestResult ==
    [status |-> "pending", start_time |-> None, end_time |-> None,
     tasks_executed |-> <<>>, screenshots |-> <<>>, errors |-> <<>>]

NoAgentResult == [NewAgentTestResult EXCEPT !.status = "absent"]

\* f"Step {i} failed: {task_result.get('error', 'Unknown error')}"
StepFailedError(i, task_result) ==
    ErrorEntry("Step failed", <<Digits[i]>>,
               IF "error" \in DOMAIN task_result
               THEN task_result["error"] ELSE "Unknown error")

(***************************************************************************)
(* State                                                                   *)
(***************************************************************************)
VARIABLES
    server,       \* the class of the server object: "MCPServer" or "AgentMCPServer"
    scope,        \* the `async with` statement around the server, and the
                  \* exception start() or stop() handed to its caller
    agent,        \* AgentMCPServer.agent: exists, and the BrowserAgent fields
    steps,        \* the argument of execute_test_steps
    agentResult,  \* the AgentTestResult of the call
    taskLog,      \* every call of agent.execute_task: step, task, outcome
    llm,          \* parser.llm is set (chosen once, in __init__)
    browser,      \* MCPServer.browser: exists, and the BrowserAutomation fields
    executor,     \* MCPServer.executor is set
    pc,           \* where the one call of this behaviour stands
    mode,         \* "test" (execute_test), "actions" (execute_actions), "direct"
    instruction,  \* the argument of execute_test
    actions,      \* the parsed actions, or the argument of execute_actions
    idx,          \* the loop's position, 1-based: i + 1
    result,       \* the TestResult of the call
    clock,        \* datetime.now()
    execLog,      \* every call of executor.execute: step, page, behaviour, outcome
    diagLog,      \* every diagnostic take_screenshot: step, outcome
    browserCalls, \* calls made into the browser session by the call
    parseLog,     \* the call of parser.parse: response, outcome
    direct,       \* a direct call of ActionExecutor.execute: inputs, outcome
    reparse,      \* a second call of parser.parse on the same parser
    cli,          \* run_test.py interactive_mode: what was read, called, printed
    first,        \* the execute_test run whose actions are given to execute_actions
    sched         \* main.py process_continuous: the postal_codes table, the
                  \* wall clock, the loop counter and the codes searched

vars == <<server, scope, agent, steps, agentResult, taskLog,
          llm, browser, executor, pc, mode, instruction, actions, idx, result,
          clock, execLog, diagLog, browserCalls, parseLog, direct, reparse,
          cli, first, sched>>

\* The state of the agent server and of its step mode.
agentVars == <<agent, steps, agentResult, taskLog>>

\* The state of the callers of the servers and of the parser.
driverVars == <<reparse, cli, first, sched>>

\* process_continuous has not been called: no table, no search.
NoSched ==
    [table |-> <<>>, now |-> 0, back |-> FALSE, max_iterations |-> 0,
     iteration |-> 0, log |-> <<>>]

\* No run of execute_test has been set aside.
NoFirst == [done |-> FALSE, result |-> NoResult, execLog |-> <<>>, diagLog |-> <<>>]

\* interactive_mode has not been entered.
NoCli == [events |-> <<>>, calls |-> <<>>, printed |-> <<>>]

\* BrowserAutomation.__init__, and no BrowserAutomation at all.
NewBrowser ==
    [exists |-> TRUE, playwright |-> "none", chromium |-> "none",
     context |-> "none", page |-> "none"]
NoBrowser == [NewBrowser EXCEPT !.exists = FALSE]

NoParse == [done |-> FALSE, resp |-> NoResponse, out |-> ParseOk(<<>>, FALSE)]
NoDirect ==
    [done |-> FALSE, action |-> Action(UnknownKind, EmptyDict, EmptyStr),
     page |-> "none", beh |-> "ok",
     out |-> [raised |-> FALSE, exc |-> "", calls |-> 0, result |-> EmptyDict]]

\* Outside the `async with` statement, no exception handed to the caller.
NoScope == [state |-> "outside", raised |-> "none"]

\* MCPServer.__init__: parser built, browser and executor None.
\* AgentMCPServer.__init__: agent None.
Init ==
    /\ server \in {"MCPServer", "AgentMCPServer"}
    /\ scope = NoScope
    /\ agent = NoAgent
    /\ steps = <<>>
    /\ agentResult = NoAgentResult
    /\ taskLog = <<>>
    /\ llm \in (IF server = "MCPServer" THEN BOOLEAN ELSE {FALSE})
    /\ browser = NoBrowser
    /\ executor = FALSE
    /\ pc = "idle"
    /\ mode = "none"
    /\ instruction = <<>>
    /\ actions = <<>>
    /\ idx = 1
    /\ result = NoResult
    /\ clock = 1
    /\ execLog = <<>>
    /\ diagLog = <<>>
    /\ browserCalls = 0
    /\ parseLog = NoParse
    /\ direct = NoDirect
    /\ reparse = NoParse
    /\ cli = NoCli
    /\ first = NoFirst
    /\ sched = NoSched

callVars == <<pc, mode, instruction, actions, idx, result, clock, execLog,
              diagLog, browserCalls, parseLog, direct>>

(***************************************************************************)
(* browser.py start/stop, server.py start/stop                             *)
(***************************************************************************)
\* BrowserAutomation.start with the failAt-th acquisition raising (0: none).
BrowserStart(failAt) ==
    [exists |-> TRUE,
     playwright |-> IF failAt = 0 \/ failAt > 1 THEN "open" ELSE "none",
     chromium   |-> IF failAt = 0 \/ failAt > 2 THEN "open" ELSE "none",
     context    |-> IF failAt = 0 \/ failAt > 3 THEN "open" ELSE "none",
     page       |-> IF failAt = 0 THEN "open" ELSE "none"]

\* MCPServer.start: the executor is built only after browser.start() returned.
\* __aenter__ is start(): when start raises, the body and __aexit__ never run.
Start ==
    /\ server = "MCPServer"
    /\ pc = "idle"
    /\ ~browser.exists
    /\ \E failAt \in 0..4 :
          /\ browser' = BrowserStart(failAt)
          /\ executor' = (failAt = 0)
          /\ scope' = IF failAt = 0
                      THEN [state |-> "inside", raised |-> "none"]
                      ELSE [state |-> "left", raised |-> "start"]
    /\ UNCHANGED driverVars
    /\ UNCHANGED <<server, agentVars, llm, callVars>>

\* BrowserAutomation.stop with the close of resource failOn raising ("" for
\* none): page, context, browser, playwright are closed in this order, each
\* only `if self.<field>`, and the first exception ends the method.
BrowserStop(b, failOn) ==
    LET order == <<"page", "context", "chromium", "playwright">>
        pos(f) == CHOOSE n \in 1..4 : order[n] = f
        stops == IF failOn \in {"page", "context", "chromium", "playwright"}
                    /\ b[failOn] # "none"
                 THEN pos(failOn) ELSE 5
        closed(f) == IF b[f] # "none" /\ pos(f) < stops THEN "closed" ELSE b[f]
    IN  [exists |-> b.exists, playwright |-> closed("playwright"),
         chromium |-> closed("chromium"), context |-> closed("context"),
         page |-> closed("page")]

\* BrowserAutomation.stop raises what a close raised (`except ...: raise`).
StopRaises(b, failOn) ==
    failOn \in {"page", "context", "chromium", "playwright"} /\ b[failOn] # "none"

\* MCPServer.stop: `if self.browser: await self.browser.stop()`, and
\* `except Exception: raise`.  __aexit__ is stop().
Stop ==
    /\ server = "MCPServer"
    /\ pc \in {"idle", "returned"}
    /\ browser.exists
    /\ \E failOn \in {"", "page", "context", "chromium", "playwright"} :
          /\ browser' = BrowserStop(browser, failOn)
          /\ scope' = [state |-> "left",
                       raised |-> IF StopRaises(browser, failOn) THEN "stop" ELSE "none"]
    /\ UNCHANGED driverVars
    /\ UNCHANGED <<server, agentVars, llm, executor, callVars>>

(***************************************************************************)
(* server.py: execute_test and execute_actions                             *)
(***************************************************************************)
\* result = TestResult()
ExecuteTestCall ==
    /\ server = "MCPServer"
    /\ pc = "idle"
    /\ \E instr \in InstructionPool : instruction' = instr
    /\ mode' = "test"
    /\ result' = NewTestResult
    /\ pc' = "created"
    /\ UNCHANGED driverVars
    /\ UNCHANGED <<server, scope, agentVars>>
    /\ UNCHANGED <<llm, browser, executor, actions, idx, clock, execLog, diagLog,
                   browserCalls, parseLog, direct>>

ExecuteActionsCall ==
    /\ server = "MCPServer"
    /\ pc = "idle"
    /\ \E list \in SeqsUpTo(ActionPool, MaxActions) : actions' = list
    /\ mode' = "actions"
    /\ result' = NewTestResult
    /\ pc' = "created"
    /\ UNCHANGED driverVars
    /\ UNCHANGED <<server, scope, agentVars>>
    /\ UNCHANGED <<llm, browser, executor, instruction, idx, clock, execLog,
                   diagLog, browserCalls, parseLog, direct>>

\* result.start_time = datetime.now(); result.status = "running"
Begin ==
    /\ pc = "created"
    /\ result' = [result EXCEPT !.start_time = clock, !.status = "running"]
    /\ clock' = clock + 1
    /\ pc' = IF mode = "test" THEN "parse" ELSE "loop"
    /\ UNCHANGED driverVars
    /\ UNCHANGED <<server, scope, agentVars>>
    /\ UNCHANGED <<llm, browser, executor, mode, instruction, actions, idx,
                   execLog, diagLog, browserCalls, parseLog, direct>>

EscapedNoEnd(r, error, now) ==
    [r EXCEPT !.status = "error",
              !.errors = Append(@, ErrorEntry("Test execution error", EmptyStr, error))]

EscapedAsFailed(r, error, now) ==
    [r EXCEPT !.status = "failed",
              !.errors = Append(@, ErrorEntry("Action failed", EmptyStr, error)),
              !.end_time = now]

\* The outermost `except Exception as e` of both methods.
Escaped(r, error, now) ==
    [r EXCEPT !.status = "error",
              !.errors = Append(@, ErrorEntry(IF mode = "test"
                                              THEN "Test execution error"
                                              ELSE "Execution error",
                                              EmptyStr, error)),
              !.end_time = now]

NoActionsAsError(r, now) ==
    [r EXCEPT !.status = "error",
              !.errors = Append(@, NoActionsError),
              !.end_time = now]

\* `if not actions:` of execute_test
NoActions(r, now) ==
    [r EXCEPT !.status = "failed",
              !.errors = Append(@, NoActionsError),
              !.end_time = now]

\* actions = await self.parser.parse(instruction)
ParseInstruction ==
    /\ pc = "parse"
    /\ \E resp \in IF llm THEN Responses ELSE {NoResponse} :
          LET out == Parse(llm, resp, instruction) IN
          /\ parseLog' = [done |-> TRUE, resp |-> resp, out |-> out]
          /\ IF out.raised
             THEN /\ result' = Escaped(result, "parse raised", clock)
                  /\ clock' = clock + 1
                  /\ pc' = "returned"
                  /\ UNCHANGED actions
             ELSE IF out.actions = <<>>
             THEN /\ result' = NoActions(result, clock)
                  /\ clock' = clock + 1
                  /\ pc' = "returned"
                  /\ UNCHANGED actions
             ELSE /\ actions' = out.actions
                  /\ pc' = "loop"
                  /\ UNCHANGED <<result, clock>>
    /\ UNCHANGED driverVars
    /\ UNCHANGED <<server, scope, agentVars>>
    /\ UNCHANGED <<llm, browser, executor, mode, instruction, idx, execLog,
                   diagLog, browserCalls, direct>>

DiagnosticScreenshotUnguarded(r, step, page, beh) ==
    LET shot == BrowserOp(page, beh, [screenshot_path |-> ScreenshotPath(ErrorStepName(step))])
    IN  IF shot.raised
        THEN [r EXCEPT !.errors = Append(@, ErrorEntry("Test execution error", EmptyStr,
                                                       shot.error))]
        ELSE [r EXCEPT !.screenshots = Append(@, shot.data["screenshot_path"])]

\* browser.take_screenshot(f"error_step_{i + 1}") inside try/except: pass
DiagnosticScreenshot(r, step, page, beh) ==
    LET shot == BrowserOp(page, beh, [screenshot_path |-> ScreenshotPath(ErrorStepName(step))])
    IN  IF shot.raised THEN r
        ELSE [r EXCEPT !.screenshots = Append(@, shot.data["screenshot_path"])]

\* Whether the loop goes on to the next action.
ContinuesAlways(action_result) == TRUE

\* `if action_result["status"] == "error": ... break`
Continues(action_result) == action_result["status"] # "error"

CollectNoScreenshot(r, action, action_result, step, page, shotBeh) ==
    LET r1 == [r EXCEPT !.actions_executed = Append(@, action_result)]
    IN  IF action_result["status"] = "error"
        THEN DiagnosticScreenshot(
                 [r1 EXCEPT !.errors = Append(@, ActionFailedError(action, action_result))],
                 step, page, shotBeh)
        ELSE r1

CollectPrepends(r, action, action_result, step, page, shotBeh) ==
    LET r1 == [r EXCEPT !.actions_executed = <<action_result>> \o @]
        r2 == IF "screenshot_path" \in DOMAIN action_result
              THEN [r1 EXCEPT !.screenshots = Append(@, action_result["screenshot_path"])]
              ELSE r1
    IN  IF action_result["status"] = "error"
        THEN DiagnosticScreenshot(
                 [r2 EXCEPT !.errors = Append(@, ActionFailedError(action, action_result))],
                 step, page, shotBeh)
        ELSE r2

CollectUncollectedInActions(r, action, action_result, step, page, shotBeh) ==
    LET r1 == [r EXCEPT !.actions_executed = Append(@, action_result)]
        r2 == IF "screenshot_path" \in DOMAIN action_result /\ mode = "test"
              THEN [r1 EXCEPT !.screenshots = Append(@, action_result["screenshot_path"])]
              ELSE r1
    IN  IF action_result["status"] = "error"
        THEN DiagnosticScreenshot(
                 [r2 EXCEPT !.errors = Append(@, ActionFailedError(action, action_result))],
                 step, page, shotBeh)
        ELSE r2

\* The loop body after executor.execute returned: append the result, collect
\* its screenshot, and on an error result record it and take the diagnostic
\* screenshot.
Collect(r, action, action_result, step, page, shotBeh) ==
    LET r1 == [r EXCEPT !.actions_executed = Append(@, action_result)]
        r2 == IF "screenshot_path" \in DOMAIN action_result
              THEN [r1 EXCEPT !.screenshots = Append(@, action_result["screenshot_path"])]
              ELSE r1
    IN  IF action_result["status"] = "error"
        THEN DiagnosticScreenshot(
                 [r2 EXCEPT !.errors = Append(@, ActionFailedError(action, action_result))],
                 step, page, shotBeh)
        ELSE r2

\* One iteration of `for i, action in enumerate(actions)`.
ExecuteNext ==
    /\ pc = "loop"
    /\ idx <= Len(actions)
    /\ IF actions[idx] = NotAnAction
       THEN \* action.description: AttributeError, caught by the outer except
            /\ result' = Escaped(result, "object has no attribute 'description'", clock)
            /\ clock' = clock + 1
            /\ pc' = "returned"
            /\ UNCHANGED <<idx, execLog, diagLog, browserCalls>>
       ELSE IF ~executor
       THEN \* self.executor is None: AttributeError, caught by the outer except
            /\ result' = Escaped(result, "'NoneType' object has no attribute 'execute'", clock)
            /\ clock' = clock + 1
            /\ pc' = "returned"
            /\ UNCHANGED <<idx, execLog, diagLog, browserCalls>>
       ELSE \E beh \in BehavioursFor(actions[idx].action_type), shotBeh \in {"ok", "raise"} :
            LET out == Execute(actions[idx], browser.page, beh)
                failed == ~out.raised /\ out.result["status"] = "error"
            IN  /\ execLog' = Append(execLog, [step |-> idx, page |-> browser.page,
                                             beh |-> beh, out |-> out])
                /\ IF out.raised
                   THEN /\ result' = Escaped(result, out.exc, clock)
                        /\ clock' = clock + 1
                        /\ pc' = "returned"
                        /\ browserCalls' = browserCalls + out.calls
                        /\ UNCHANGED <<idx, diagLog>>
                   ELSE /\ result' = Collect(result, actions[idx], out.result, idx,
                                             browser.page, shotBeh)
                        /\ diagLog' = IF failed
                                      THEN Append(diagLog, [step |-> idx, beh |-> shotBeh])
                                      ELSE diagLog
                        /\ browserCalls' = browserCalls + out.calls + (IF failed THEN 1 ELSE 0)
                        /\ idx' = idx + 1
                        /\ pc' = IF Continues(out.result) THEN "loop" ELSE "finalize"
                        /\ UNCHANGED clock
    /\ UNCHANGED driverVars
    /\ UNCHANGED <<server, scope, agentVars>>
    /\ UNCHANGED <<llm, browser, executor, mode, instruction, actions, parseLog, direct>>

FinalStatusPassed(r) == "passed"

FinalStatusFailedOnEmpty(r) ==
    IF r.errors # <<>> \/ r.actions_executed = <<>> THEN "failed" ELSE "passed"

\* `if result.errors: "failed" else: "passed"`
FinalStatus(r) == IF r.errors # <<>> THEN "failed" ELSE "passed"

\* After the loop: the final status and the end time.
Finalize ==
    /\ \/ pc = "finalize"
       \/ pc = "loop" /\ idx > Len(actions)
    /\ result' = [result EXCEPT !.status = FinalStatus(result), !.end_time = clock]
    /\ clock' = clock + 1
    /\ pc' = "returned"
    /\ UNCHANGED driverVars
    /\ UNCHANGED <<server, scope, agentVars>>
    /\ UNCHANGED <<llm, browser, executor, mode, instruction, actions, idx,
                   execLog, diagLog, browserCalls, parseLog, direct>>

(***************************************************************************)
(* A direct call of ActionExecutor.execute, on an executor built over a    *)
(* browser session in any state.                                           *)
(***************************************************************************)
ExecuteDirect ==
    /\ server = "MCPServer"
    /\ pc = "idle"
    /\ ~browser.exists
    /\ \E a \in AllActions, page \in PageStates, beh \in Behaviours :
          /\ beh \in BehavioursFor(a.action_type)
          /\ direct' = [done |-> TRUE, action |-> a, page |-> page, beh |-> beh,
                        out |-> Execute(a, page, beh)]
    /\ mode' = "direct"
    /\ pc' = "returned"
    /\ UNCHANGED driverVars
    /\ UNCHANGED <<server, scope, agentVars>>
    /\ UNCHANGED <<llm, browser, executor, instruction, actions, idx, result,
                   clock, execLog, diagLog, browserCalls, parseLog>>

(***************************************************************************)
(* agent_server.py: start, stop and execute_test_steps                     *)
(***************************************************************************)
\* AgentMCPServer.start: BrowserAgent.start re-raises what a constructor raised.
AgentStart ==
    /\ server = "AgentMCPServer"
    /\ pc = "idle"
    /\ ~agent.exists
    /\ \E failAt \in 0..2 :
          /\ agent' = AgentStarted(failAt)
          /\ scope' = IF failAt = 0
                      THEN [state |-> "inside", raised |-> "none"]
                      ELSE [state |-> "left", raised |-> "start"]
    /\ UNCHANGED driverVars
    /\ UNCHANGED <<server, steps, agentResult, taskLog, llm, browser, executor, callVars>>

\* AgentMCPServer.stop: `if self.agent: await self.agent.stop()`, which
\* raises nothing.
AgentStop ==
    /\ server = "AgentMCPServer"
    /\ pc \in {"idle", "returned"}
    /\ agent.exists
    /\ \E killRaises \in BOOLEAN : agent' = AgentStopped(agent, killRaises)
    /\ scope' = [state |-> "left", raised |-> "none"]
    /\ UNCHANGED driverVars
    /\ UNCHANGED <<server, steps, agentResult, taskLog, llm, browser, executor, callVars>>

AgentTestEscapedAsFailed(r, error, now) ==
    [r EXCEPT !.status = "failed",
              !.errors = Append(@, ErrorEntry("Test execution error", EmptyStr, error)),
              !.end_time = None]

\* The `except Exception as e` of AgentMCPServer.execute_test.
AgentTestEscaped(r, error, now) ==
    [r EXCEPT !.status = "error",
              !.errors = Append(@, ErrorEntry("Test execution error", EmptyStr, error)),
              !.end_time = now]

\* The try block of AgentMCPServer.execute_test after execute_task returned:
\* the task result, its screenshot, the bare error text and the status.
AgentTestCollect(r, task_result, now) ==
    LET r1 == [r EXCEPT !.tasks_executed = Append(@, task_result)]
        r2 == IF "screenshot" \in DOMAIN task_result /\ task_result["screenshot"] # NoShot
              THEN [r1 EXCEPT !.screenshots = Append(@, task_result["screenshot"])]
              ELSE r1
    IN  IF task_result["status"] = "error"
        THEN [r2 EXCEPT !.errors = Append(@, ErrorEntry("", EmptyStr,
                                             IF "error" \in DOMAIN task_result
                                             THEN task_result["error"]
                                             ELSE "Unknown error")),
                        !.status = "failed", !.end_time = now]
        ELSE [r2 EXCEPT !.status = "passed", !.end_time = now]

\* AgentMCPServer.execute_test: the whole instruction is one task.
AgentExecuteTest ==
    /\ server = "AgentMCPServer"
    /\ pc = "idle"
    /\ \E instr \in InstructionPool, beh \in {"ok", "raise"}, shot \in BOOLEAN :
          LET r == [NewAgentTestResult EXCEPT !.start_time = clock, !.status = "running"]
              out == ExecuteTask(agent, instr, beh, shot)
          IN  /\ instruction' = instr
              /\ IF ~agent.exists
                 THEN \* self.agent is None: AttributeError
                      /\ agentResult' = AgentTestEscaped(r,
                              "'NoneType' object has no attribute 'execute_task'", clock + 1)
                      /\ UNCHANGED taskLog
                 ELSE /\ taskLog' = Append(taskLog, [step |-> 1, task |-> instr, out |-> out])
                      /\ agentResult' = IF out.raised
                                        THEN AgentTestEscaped(r, out.exc, clock + 1)
                                        ELSE AgentTestCollect(r, out.result, clock + 1)
    /\ clock' = clock + 2
    /\ mode' = "agent_test"
    /\ pc' = "returned"
    /\ UNCHANGED driverVars
    /\ UNCHANGED <<server, scope, agent, steps, llm, browser, executor, actions, idx,
                   result, execLog, diagLog, browserCalls, parseLog, direct>>

\* result = AgentTestResult(); start_time = now; status = "running"
ExecuteTestStepsCall ==
    /\ server = "AgentMCPServer"
    /\ pc = "idle"
    /\ \E list \in SeqsUpTo(StepPool, MaxSteps) : steps' = list
    /\ agentResult' = [NewAgentTestResult EXCEPT !.start_time = clock,
                                                 !.status = "running"]
    /\ clock' = clock + 1
    /\ mode' = "steps"
    /\ pc' = "steps"
    /\ UNCHANGED driverVars
    /\ UNCHANGED <<server, scope, agent, taskLog, llm, browser, executor, instruction,
                   actions, idx, result, execLog, diagLog, browserCalls, parseLog,
                   direct>>

\* The outermost `except Exception as e` of execute_test_steps.
StepsEscaped(r, error, now) ==
    [r EXCEPT !.status = "error",
              !.errors = Append(@, ErrorEntry("Execution error", EmptyStr, error)),
              !.end_time = now]

StepContinuesAlways(task_result) == TRUE

\* `if task_result["status"] == "error": ... break`
StepContinues(task_result) == task_result["status"] # "error"

\* The loop body after execute_task returned: append the result, collect its
\* screenshot (`if task_result.get("screenshot")`), record an error result.
StepCollect(r, task_result, i) ==
    LET r1 == [r EXCEPT !.tasks_executed = Append(@, task_result)]
        r2 == IF "screenshot" \in DOMAIN task_result /\ task_result["screenshot"] # NoShot
              THEN [r1 EXCEPT !.screenshots = Append(@, task_result["screenshot"])]
              ELSE r1
    IN  IF task_result["status"] = "error"
        THEN [r2 EXCEPT !.errors = Append(@, StepFailedError(i, task_result))]
        ELSE r2

\* One iteration of `for i, step in enumerate(steps, 1)`.
StepNext ==
    /\ pc = "steps"
    /\ idx <= Len(steps)
    /\ IF ~agent.exists
       THEN \* self.agent is None: AttributeError, caught by the outer except
            /\ agentResult' = StepsEscaped(agentResult,
                                   "'NoneType' object has no attribute 'execute_task'", clock)
            /\ clock' = clock + 1
            /\ pc' = "returned"
            /\ UNCHANGED <<idx, taskLog>>
       ELSE \E beh \in {"ok", "raise"}, shot \in BOOLEAN :
            LET out == ExecuteTask(agent, steps[idx], beh, shot) IN
            /\ taskLog' = Append(taskLog, [step |-> idx, task |-> steps[idx], out |-> out])
            /\ IF out.raised
               THEN /\ agentResult' = StepsEscaped(agentResult, out.exc, clock)
                    /\ clock' = clock + 1
                    /\ pc' = "returned"
                    /\ UNCHANGED idx
               ELSE /\ agentResult' = StepCollect(agentResult, out.result, idx)
                    /\ idx' = idx + 1
                    /\ pc' = IF StepContinues(out.result) THEN "steps" ELSE "steps_done"
                    /\ UNCHANGED clock
    /\ UNCHANGED driverVars
    /\ UNCHANGED <<server, scope, agent, steps, llm, browser, executor, mode,
                   instruction, actions, result, execLog, diagLog, browserCalls,
                   parseLog, direct>>

\* result.status = "passed" if not result.errors else "failed"
StepsFinalStatus(r) == IF r.errors = <<>> THEN "passed" ELSE "failed"

\* After the loop of execute_test_steps: the final status and the end time.
StepsFinalize ==
    /\ \/ pc = "steps_done"
       \/ pc = "steps" /\ idx > Len(steps)
    /\ agentResult' = [agentResult EXCEPT !.status = StepsFinalStatus(agentResult),
                                          !.end_time = clock]
    /\ clock' = clock + 1
    /\ pc' = "returned"
    /\ UNCHANGED driverVars
    /\ UNCHANGED <<server, scope, agent, steps, taskLog, llm, browser, executor, mode,
                   instruction, actions, idx, result, execLog, diagLog, browserCalls,
                   parseLog, direct>>

Next ==
    \/ Start
    \/ Stop
    \/ ExecuteTestCall
    \/ ExecuteActionsCall
    \/ Begin
    \/ ParseInstruction
    \/ ExecuteNext
    \/ Finalize
    \/ ExecuteDirect
    \/ AgentStart
    \/ AgentStop
    \/ AgentExecuteTest
    \/ ExecuteTestStepsCall
    \/ StepNext
    \/ StepsFinalize

Spec == Init /\ [][Next]_vars

(***************************************************************************)
(* Properties                                                              *)
(***************************************************************************)
Terminal == {"passed", "failed", "error"}

\* execute_test or execute_actions has returned its TestResult.
ReturnedResult == pc = "returned" /\ mode \in {"test", "actions"}

\* The n-th call of executor.execute returned an 'error' result.
ErrorAt(n) ==
    /\ ~execLog[n].out.raised
    /\ execLog[n].out.result["status"] = "error"

FirstErrorAt(k) ==
    /\ k \in 1..Len(execLog)
    /\ ErrorAt(k)
    /\ \A j \in 1..(k - 1) : ~ErrorAt(j)

\* C1: fail-fast.  When action k is the first whose executor result is an
\* error, the executor has been called for actions 1..k and never again, and
\* the returned TestResult has k entries in actions_executed and one entry in
\* errors, which carries the description of action k.
C1_FailFast ==
    \A k \in 1..Len(execLog) :
        FirstErrorAt(k) =>
            /\ Len(execLog) = k
            /\ \A n \in 1..k : execLog[n].step = n
            /\ ReturnedResult =>
                  /\ Len(result.actions_executed) = k
                  /\ Len(result.errors) = 1
                  /\ result.errors[1].kind = "Action failed"
                  /\ result.errors[1].description = actions[k].description

\* A run of two actions whose first action failed has returned.
C1_Witness ==
    /\ ReturnedResult
    /\ Len(actions) = 2
    /\ FirstErrorAt(1)

\* C2: status derivation.  In every returned TestResult the status is final,
\* passed is true exactly when the status is 'passed', 'passed' comes with no
\* errors, and 'failed' and 'error' come with at least one.
C2_StatusDerivation ==
    ReturnedResult =>
        /\ result.status \in Terminal
        /\ Passed(result) <=> (result.status = "passed")
        /\ result.status = "passed" => result.errors = <<>>
        /\ result.status \in {"failed", "error"} => result.errors # <<>>

\* A run returned 'failed' after an action error.
C2_Witness ==
    /\ ReturnedResult
    /\ result.status = "failed"
    /\ execLog # <<>>
    /\ result.errors # <<>>

\* The status and times that go with each point of a call.
LifecycleState ==
    /\ pc = "created" => result.status = "pending"
    /\ pc \in {"parse", "loop", "finalize"} =>
          /\ result.status = "running"
          /\ result.start_time # None
          /\ DurationMs(result) = NoDuration
    /\ parseLog.done => result.status \notin {"pending", "absent"}
    /\ ReturnedResult =>
          /\ result.status \in Terminal
          /\ result.end_time # None
          /\ DurationMs(result) # NoDuration

\* The moves the status may make.
LifecycleStep ==
    /\ result.status = "pending" => result'.status \in {"pending", "running"}
    /\ result.status = "running" => result'.status \in {"running"} \cup Terminal
    /\ result.status \in Terminal => result'.status = result.status

\* C3: lifecycle of a TestResult.  It is created 'pending', is 'running' from
\* before the parse until the call returns, with no duration while running,
\* and every returned result is 'passed', 'failed' or 'error' with its end
\* time and duration set; a final status never changes again.
C3_Lifecycle == []LifecycleState /\ [][LifecycleStep]_vars

\* execute_test returned 'error': the exception path (no executor).
C3_Witness ==
    /\ ReturnedResult
    /\ mode = "test"
    /\ result.status = "error"
    /\ DurationMs(result) # NoDuration

\* C4: when parse returns no action, execute_test returns 'failed' with the
\* one error 'No actions could be parsed from instruction', nothing in
\* actions_executed or screenshots, and neither the executor nor the browser
\* has been called.
C4_NoActions ==
    (ReturnedResult /\ mode = "test" /\ parseLog.done
        /\ ~parseLog.out.raised /\ parseLog.out.actions = <<>>) =>
        /\ result.status = "failed"
        /\ result.errors = <<NoActionsError>>
        /\ result.actions_executed = <<>>
        /\ result.screenshots = <<>>
        /\ execLog = <<>>
        /\ diagLog = <<>>
        /\ browserCalls = 0

\* execute_test returned for an instruction of words no rule recognizes.
C4_Witness ==
    /\ ReturnedResult
    /\ mode = "test"
    /\ instruction # <<>>
    /\ ParseWithRules(instruction) = <<>>
    /\ parseLog.out.actions = <<>>
    /\ result.status = "failed"

\* What execute returned for `action` is the conversion of what
\* _dispatch_action did: success, or error with the exception's message.
ConvertsDispatch(out, action, page, beh) ==
    /\ ~out.raised
    /\ out.result["status"] \in {"success", "error"}
    /\ out.result["action"] = action.action_type
    /\ out.result["status"] = "error" <=> DispatchAction(action, page, beh).raised
    /\ out.result["status"] = "error" =>
          /\ "error" \in DOMAIN out.result
          /\ out.result["error"] = DispatchAction(action, page, beh).error

\* C5: ActionExecutor.execute never raises.  For every Action and every
\* behaviour of the browser it returns a result whose status is 'success' or
\* 'error', and an error result carries the message of the exception.
C5_ExecuteNeverRaises ==
    /\ direct.done =>
          ConvertsDispatch(direct.out, direct.action, direct.page, direct.beh)
    /\ \A n \in 1..Len(execLog) :
          ConvertsDispatch(execLog[n].out, actions[execLog[n].step],
                           execLog[n].page, execLog[n].beh)

\* A direct call whose browser operation raised returned an error result.
C5_Witness ==
    /\ direct.done
    /\ direct.page = "open"
    /\ direct.beh = "raise"
    /\ direct.out.result["status"] = "error"

\* C6 as stated: an Action whose kind has no handler makes execute raise to
\* its caller.
C6_UnknownKindRaises ==
    (direct.done /\ direct.action.action_type \notin ActionType) =>
        direct.out.raised

\* C6, amended: an Action whose kind has no handler gets the 'error' result
\* 'Unknown action type' from execute, which raises nothing and calls no
\* browser operation; in a run it is an ordinary failed action.
C6_UnknownKindSoftError ==
    /\ (direct.done /\ direct.action.action_type \notin ActionType) =>
          /\ ~direct.out.raised
          /\ direct.out.calls = 0
          /\ direct.out.result =
                [status |-> "error", action |-> direct.action.action_type,
                 error |-> "Unknown action type"]
    /\ \A n \in 1..Len(execLog) :
          actions[execLog[n].step].action_type \notin ActionType =>
             /\ ErrorAt(n)
             /\ ReturnedResult => result.status = "failed"

\* A direct call with an Action of the unknown kind has returned.
C6_Witness ==
    /\ direct.done
    /\ direct.action.action_type = UnknownKind
    /\ ~direct.out.raised

\* The Action lacks a parameter its kind requires.
MissingParam(a) == \E k \in Required(a.action_type) : ~Has(a.parameters, k)

\* C7: an Action that lacks a required parameter gets an 'error' result from
\* execute, which neither raises nor calls a browser operation, and in a run
\* it is the last action executed and the run ends 'failed' with one error.
C7_MissingParameter ==
    /\ (direct.done /\ MissingParam(direct.action)) =>
          /\ ~direct.out.raised
          /\ direct.out.result["status"] = "error"
          /\ direct.out.calls = 0
    /\ \A n \in 1..Len(execLog) :
          MissingParam(actions[execLog[n].step]) =>
             /\ ErrorAt(n)
             /\ execLog[n].out.calls = 0
             /\ Len(execLog) = n
             /\ ReturnedResult =>
                   /\ result.status = "failed"
                   /\ Len(result.errors) = 1
                   /\ Len(result.actions_executed) = n

\* execute_test returned 'failed' on a first action without its parameters.
C7_Witness ==
    /\ ReturnedResult
    /\ mode = "test"
    /\ Len(actions) = 2
    /\ Len(execLog) = 1
    /\ MissingParam(actions[1])
    /\ result.status = "failed"

\* Parameter k of the Action is present and empty.
EmptyParam(a, k) == Has(a.parameters, k) /\ a.parameters[k] = EmptyStr

Rejected(out) ==
    /\ ~out.raised
    /\ out.result["status"] = "error"
    /\ out.calls = 0

\* C8 as stated: every required parameter that is present but empty is
\* rejected before any browser operation, the text of fill included.
C8_EmptyRejected ==
    (direct.done /\ \E k \in Required(direct.action.action_type) :
                        EmptyParam(direct.action, k)) =>
        Rejected(direct.out)

\* C8, amended: a required parameter that is present but empty is rejected
\* before any browser operation, except the text of fill: fill rejects only
\* a missing text, and with a selector and an empty text it calls the
\* browser's fill.
C8_EmptyRejectedButFillText ==
    /\ (direct.done /\ \E k \in Required(direct.action.action_type) :
                          /\ EmptyParam(direct.action, k)
                          /\ ~(direct.action.action_type = "fill" /\ k = "text")) =>
          Rejected(direct.out)
    /\ (direct.done /\ direct.action.action_type = "fill"
          /\ ~Falsy(direct.action.parameters, "selector")
          /\ EmptyParam(direct.action, "text")) =>
          /\ direct.out.calls = 1
          /\ (direct.page = "open" /\ direct.beh = "ok") =>
                direct.out.result["status"] = "success"

\* A direct fill with a selector and the empty text succeeded.
C8_Witness ==
    /\ direct.done
    /\ direct.action.action_type = "fill"
    /\ ~Falsy(direct.action.parameters, "selector")
    /\ EmptyParam(direct.action, "text")
    /\ direct.out.result["status"] = "success"

\* Every required parameter of the Action is present and non-empty.
ValidParams(a) == \A k \in Required(a.action_type) : ~Falsy(a.parameters, k)

\* The three keys of an error result.
ErrorShape(r) == DOMAIN r = {"status", "action", "error"} /\ r["status"] = "error"

\* The verification could not pass: the condition is false, or the check
\* could not be made (the operation raised, no element, no page).
VerifyFails(page, beh) == beh # "ok" \/ page = "none"

\* C9: a verification action whose condition is false and one whose check
\* could not be made both get an error result of the same three keys from
\* execute, and both end the run 'failed' with one error and no further
\* action.
C9_VerifyFailureShape ==
    /\ (direct.done /\ direct.action.action_type \in VerifyKinds
          /\ ValidParams(direct.action)
          /\ VerifyFails(direct.page, direct.beh)) =>
          /\ ~direct.out.raised
          /\ ErrorShape(direct.out.result)
    /\ \A n \in 1..Len(execLog) :
          (actions[execLog[n].step].action_type \in VerifyKinds
             /\ ValidParams(actions[execLog[n].step])
             /\ VerifyFails(execLog[n].page, execLog[n].beh)) =>
             /\ ~execLog[n].out.raised
             /\ ErrorShape(execLog[n].out.result)
             /\ Len(execLog) = n
             /\ ReturnedResult =>
                   /\ result.status = "failed"
                   /\ Len(result.errors) = 1

\* A run returned 'failed' on a verification whose condition was false.
C9_Witness ==
    /\ ReturnedResult
    /\ execLog # <<>>
    /\ actions[Len(execLog)].action_type \in VerifyKinds
    /\ execLog[Len(execLog)].beh = "cond_false"
    /\ browser.page = "open"
    /\ result.status = "failed"

\* C10: parse never raises, whatever the instruction, the strategy and the
\* language model's response; it returns Actions of known kinds, and returns
\* the empty sequence when the LLM path failed (or there is no LLM) and no
\* rule recognizes a step.
C10_ParseNeverRaises ==
    parseLog.done =>
        /\ ~parseLog.out.raised
        /\ \A n \in 1..Len(parseLog.out.actions) :
              parseLog.out.actions[n].action_type \in ActionType
        /\ ((parseLog.out.fallback \/ ~llm) /\ ParseWithRules(instruction) = <<>>) =>
              parseLog.out.actions = <<>>

\* parse fell back to the rules on an array holding a non-object.
C10_Witness ==
    /\ parseLog.done
    /\ llm
    /\ parseLog.resp.kind = "array"
    /\ \E n \in 1..Len(parseLog.resp.items) : ~parseLog.resp.items[n].obj
    /\ parseLog.out.fallback
    /\ ~parseLog.out.raised

\* The language model's answer is one of the errors of the LLM path: the
\* call raised, the response holds no JSON array that parses (prose, broken
\* JSON, a JSON scalar, a JSON object), or an element of the array is no
\* object, so that its conversion raises.
LLMPathError(resp) ==
    \/ resp.kind \in {"raises", "prose", "badjson", "scalar", "object"}
    \/ resp.kind = "array" /\ \E n \in 1..Len(resp.items) : ~resp.items[n].obj

\* C11: LLM fallback.  With an LLM configured, whenever the call raises, the
\* response holds no parseable JSON array or the conversion raises, parse
\* returns exactly what the rule-based strategy returns for the instruction.
C11_LLMFallback ==
    (parseLog.done /\ llm /\ LLMPathError(parseLog.resp)) =>
        /\ ~parseLog.out.raised
        /\ parseLog.out.actions = ParseWithRules(instruction)

\* The n-th call of executor.execute returned a 'success' result.
SuccessAt(n) ==
    /\ ~execLog[n].out.raised
    /\ execLog[n].out.result["status"] = "success"

\* The screenshot paths in the results of the first n executor calls.
RECURSIVE EmittedShots(_)
EmittedShots(n) ==
    IF n = 0 THEN <<>>
    ELSE EmittedShots(n - 1) \o
         (IF "screenshot_path" \in DOMAIN execLog[n].out.result
          THEN <<execLog[n].out.result["screenshot_path"]>> ELSE <<>>)

\* execute_test has returned and every parsed action was executed with success.
AllSucceeded ==
    /\ ReturnedResult
    /\ mode = "test"
    /\ actions # <<>>
    /\ Len(execLog) = Len(actions)
    /\ \A n \in 1..Len(execLog) : SuccessAt(n)

\* C12: when every one of the N parsed actions succeeds, execute_test returns
\* 'passed' with no errors, the N results in action order, and as screenshots
\* exactly the paths the successful actions emitted, one per screenshot
\* action and in order, with no diagnostic screenshot.
C12_AllSucceed ==
    AllSucceeded =>
        /\ result.status = "passed"
        /\ result.errors = <<>>
        /\ Len(result.actions_executed) = Len(actions)
        /\ \A n \in 1..Len(actions) :
              /\ execLog[n].step = n
              /\ result.actions_executed[n] = execLog[n].out.result
              /\ result.actions_executed[n]["action"] = actions[n].action_type
        /\ result.screenshots = EmittedShots(Len(execLog))
        /\ Len(result.screenshots) =
              Cardinality({n \in 1..Len(actions) : actions[n].action_type = "screenshot"})
        /\ diagLog = <<>>

\* The three steps navigate, search, screenshot all succeeded.
C12_Witness ==
    /\ AllSucceeded
    /\ Len(actions) = 3
    /\ actions[3].action_type = "screenshot"
    /\ Len(result.screenshots) = 1

\* The call has returned although the action after the last executed one
\* could not be started: the object in the list is no Action, or there is no
\* executor (start() never succeeded).  Both raise inside the try block.
ExceptionEscaped ==
    /\ ReturnedResult
    /\ Len(execLog) < Len(actions)
    /\ \A n \in 1..Len(execLog) : SuccessAt(n)
    /\ actions[Len(execLog) + 1] = NotAnAction \/ ~executor

\* C13: an exception that escapes the parse-and-execute procedure of
\* execute_test or execute_actions is caught by the outermost handler: the
\* call returns a result with status 'error', the exception's message as the
\* one entry of errors, the end time set and the results of the actions
\* executed before it kept; 'error' is the status of these returns only.
C13_OuterException ==
    /\ ExceptionEscaped =>
          /\ result.status = "error"
          /\ Len(result.errors) = 1
          /\ result.errors[1].kind =
                (IF mode = "test" THEN "Test execution error" ELSE "Execution error")
          /\ result.errors[1].error # ""
          /\ result.end_time # None
          /\ Len(result.actions_executed) = Len(execLog)
          /\ \A n \in 1..Len(execLog) :
                result.actions_executed[n] = execLog[n].out.result
    /\ (ReturnedResult /\ result.status = "error") => ExceptionEscaped

\* execute_actions returned 'error' after one action had been executed.
C13_Witness ==
    /\ ExceptionEscaped
    /\ mode = "actions"
    /\ Len(execLog) = 1
    /\ Len(result.actions_executed) = 1
    /\ result.status = "error"

\* The four resources BrowserAutomation.start acquires.
Resources == {"playwright", "chromium", "context", "page"}

\* C14: scoped browser session.  Every action executes on a session whose
\* page was acquired, and once the `async with` scope of the MCPServer has
\* been left, by a failure inside start() or through stop(), whatever one of
\* its teardown steps did, no acquired resource is still open.
C14_ScopedSession ==
    /\ \A n \in 1..Len(execLog) : execLog[n].page # "none"
    /\ (server = "MCPServer" /\ scope.state = "left") =>
          \A f \in Resources : browser[f] # "open"

\* C15: best-effort cleanup never masks the original error.  A failing
\* diagnostic screenshot leaves the run 'failed' with its one original error,
\* and a failing teardown (MCPServer.stop, BrowserAutomation.stop,
\* BrowserAgent.stop) hands no exception of its own to the caller.
C15_CleanupNeverMasks ==
    /\ \A n \in 1..Len(diagLog) :
          (diagLog[n].beh = "raise" /\ ReturnedResult) =>
             /\ result.status = "failed"
             /\ Len(result.errors) = 1
             /\ result.errors[1].kind = "Action failed"
    /\ scope.raised # "stop"

\* execute_test_steps has returned its AgentTestResult.
StepsReturned == pc = "returned" /\ mode = "steps"

\* The n-th call of agent.execute_task returned an 'error' task result.
TaskErrorAt(n) ==
    /\ ~taskLog[n].out.raised
    /\ taskLog[n].out.result["status"] = "error"

FirstTaskErrorAt(k) ==
    /\ k \in 1..Len(taskLog)
    /\ TaskErrorAt(k)
    /\ \A j \in 1..(k - 1) : ~TaskErrorAt(j)

\* Every step was sent to the agent and came back with a 'success' result.
AllStepsSucceeded ==
    /\ Len(taskLog) = Len(steps)
    /\ \A n \in 1..Len(taskLog) :
          ~taskLog[n].out.raised /\ taskLog[n].out.result["status"] = "success"

\* C16: step mode is fail-fast.  When step k is the first whose task result
\* is an error, steps 1..k and no later one were sent to the agent, and the
\* returned result is 'failed' with k task results and one error, which
\* names step k; when every step's task succeeds the result is 'passed' with
\* no error and one task result per step, in order.
C16_StepFailFast ==
    /\ mode = "steps" =>
          \A n \in 1..Len(taskLog) :
             taskLog[n].step = n /\ taskLog[n].task = steps[n]
    /\ \A k \in 1..Len(taskLog) :
          FirstTaskErrorAt(k) =>
             /\ Len(taskLog) = k
             /\ StepsReturned =>
                   /\ agentResult.status = "failed"
                   /\ Len(agentResult.tasks_executed) = k
                   /\ Len(agentResult.errors) = 1
                   /\ agentResult.errors[1].kind = "Step failed"
                   /\ agentResult.errors[1].description = <<Digits[k]>>
    /\ (StepsReturned /\ AllStepsSucceeded) =>
          /\ agentResult.status = "passed"
          /\ agentResult.errors = <<>>
          /\ Len(agentResult.tasks_executed) = Len(steps)
          /\ \A n \in 1..Len(steps) :
                agentResult.tasks_executed[n] = taskLog[n].out.result

\* Two steps were given and the first one's task failed.
C16_Witness ==
    /\ StepsReturned
    /\ Len(steps) = 2
    /\ FirstTaskErrorAt(1)
    /\ agentResult.status = "failed"

\* The executor calls made so far are the first actions of the list, in
\* order, and actions_executed holds exactly their results.
SequentialState ==
    /\ Len(execLog) <= Len(actions)
    /\ \A n \in 1..Len(execLog) : execLog[n].step = n
    /\ mode \in {"test", "actions"} =>
          /\ Len(result.actions_executed) = Len(execLog)
          /\ \A n \in 1..Len(execLog) :
                /\ result.actions_executed[n] = execLog[n].out.result
                /\ result.actions_executed[n]["action"] = actions[n].action_type

\* A step of the run: no executed action is executed again or changed, the
\* list is fixed once the first action ran, and an action starts only when
\* the result of the previous one has been appended and was no error.
SequentialStep ==
    /\ Len(execLog') \in {Len(execLog), Len(execLog) + 1}
    /\ SubSeq(execLog', 1, Len(execLog)) = execLog
    /\ execLog # <<>> => actions' = actions
    /\ Len(execLog') > Len(execLog) =>
          /\ Len(result.actions_executed) = Len(execLog)
          /\ Len(execLog) > 0 => SuccessAt(Len(execLog))
          /\ execLog'[Len(execLog')].step = Len(execLog) + 1

\* C17: sequential, once-only execution.  The executor is invoked on a
\* prefix of the action list in source order, each action at most once, an
\* action only after the previous result was appended, and at every point
\* actions_executed[i] is the result of the i-th action.
C17_Sequential == []SequentialState /\ [][SequentialStep]_vars

\* execute_test ran its first action with success and then its second one.
C17_Witness ==
    /\ mode = "test"
    /\ Len(actions) >= 2
    /\ Len(execLog) = 2
    /\ SuccessAt(1)
    /\ Len(result.actions_executed) = 2

\* parse has returned what the rule-based strategy produced.
RulesUsed == parseLog.done /\ (~llm \/ parseLog.out.fallback)

\* C18: under rule-based parsing "Go to homepage and search for laptop"
\* yields exactly two actions, navigate{url: "homepage"} and then
\* search{term: "laptop"}.
C18_NavigateAndSearch ==
    (RulesUsed
       /\ instruction = <<"Go to", "homepage", "and", "search", "for", "laptop">>) =>
        /\ Len(parseLog.out.actions) = 2
        /\ parseLog.out.actions[1].action_type = "navigate"
        /\ parseLog.out.actions[1].parameters = [url |-> <<"homepage">>]
        /\ parseLog.out.actions[2].action_type = "search"
        /\ parseLog.out.actions[2].parameters = [term |-> <<"laptop">>]

\* C19: under rule-based parsing "Add to cart and verify cart has items"
\* yields add_to_cart{} followed by a second action of a verify_* kind.
C19_AddToCartAndVerify ==
    (RulesUsed
       /\ instruction = <<"Add to cart", "and", "verify", "cart", "has", "items">>) =>
        /\ Len(parseLog.out.actions) >= 2
        /\ parseLog.out.actions[1].action_type = "add_to_cart"
        /\ parseLog.out.actions[1].parameters = EmptyDict
        /\ parseLog.out.actions[2].action_type \in VerifyKinds

\* The keywords the rules of _parse_with_rules look for.
Keywords ==
    {"go to", "navigate to", "visit", "open", "search", "add to cart",
     "add product", "checkout", "click", "select", "choose", "verify", "check",
     "assert", "screenshot", "capture"}

MatchesKeyword(step) == AnyIn(Keywords, LowerStr(step))

\* The rule-based steps of the instruction of the call.
StepsOf == SplitSteps(instruction, <<>>)

\* The parse returned one Action per step, in the order of the steps.
ActionPerStep ==
    /\ parseLog.out.actions # <<>>
    /\ Len(parseLog.out.actions) = Len(StepsOf)
    /\ \A n \in 1..Len(StepsOf) : <<parseLog.out.actions[n]>> = ParseStep(StepsOf[n])

\* C20 as stated, on the instructions that have a step: when each step
\* matches a keyword of the rules, the rule-based parse returns a non-empty
\* sequence with an Action for each step, in step order.
C20_ActionPerKeywordStep ==
    (RulesUsed /\ StepsOf # <<>>
       /\ \A n \in 1..Len(StepsOf) : MatchesKeyword(StepsOf[n])) =>
        ActionPerStep

\* C20, amended: when the instruction has a step and each step yields an
\* Action (its first matching rule also finds its target), the rule-based
\* parse returns a non-empty sequence with exactly one Action per step, in
\* step order; in every case it returns at most one Action per step.
C20_ActionPerYieldingStep ==
    RulesUsed =>
        /\ Len(parseLog.out.actions) <= Len(StepsOf)
        /\ (StepsOf # <<>> /\ \A n \in 1..Len(StepsOf) : ParseStep(StepsOf[n]) # <<>>) =>
              ActionPerStep

\* The rules parsed three numbered steps into three Actions.
C20_Witness ==
    /\ RulesUsed
    /\ Len(StepsOf) = 3
    /\ Len(parseLog.out.actions) = 3
    /\ parseLog.out.actions[1].action_type = "navigate"
    /\ parseLog.out.actions[3].action_type = "screenshot"

(***************************************************************************)
(* parser.py: one NaturalLanguageParser asked twice for the same           *)
(* instruction.  The language model answers each call on its own; parse    *)
(* reads self.llm and assigns nothing.                                     *)
(***************************************************************************)
\* Longest JSON array the model returns to a parser that is asked twice.
MaxReparseItems == 1

ReparseResponses == {r \in Responses : Len(r.items) <= MaxReparseItems}

\* Instructions given to parse.
ParseInstructions ==
    InstructionPool \cup
    {<<"Go to", "homepage", "and", "search", "for", "laptop", ".", "hello", "world",
       ".", "Click", "checkout">>,
     <<"choose", "size", "large", "and", "capture", "it">>}

\* NaturalLanguageParser.__init__: self.llm is set or None.
InitParse ==
    /\ server = "MCPServer"
    /\ scope = NoScope
    /\ agent = NoAgent
    /\ steps = <<>>
    /\ agentResult = NoAgentResult
    /\ taskLog = <<>>
    /\ llm \in BOOLEAN
    /\ browser = NoBrowser
    /\ executor = FALSE
    /\ pc = "idle"
    /\ mode = "parse"
    /\ instruction = <<>>
    /\ actions = <<>>
    /\ idx = 1
    /\ result = NoResult
    /\ clock = 1
    /\ execLog = <<>>
    /\ diagLog = <<>>
    /\ browserCalls = 0
    /\ parseLog = NoParse
    /\ direct = NoDirect
    /\ reparse = NoParse
    /\ cli = NoCli
    /\ first = NoFirst
    /\ sched = NoSched

\* await parser.parse(instruction)
ParseCall ==
    /\ pc = "idle"
    /\ \E instr \in ParseInstructions,
          resp \in (IF llm THEN ReparseResponses ELSE {NoResponse}) :
          /\ instruction' = instr
          /\ parseLog' = [done |-> TRUE, resp |-> resp, out |-> Parse(llm, resp, instr)]
    /\ pc' = "parsed"
    /\ UNCHANGED <<server, scope, agentVars, llm, browser, executor, mode, actions,
                   idx, result, clock, execLog, diagLog, browserCalls, direct, reparse,
                   cli, first, sched>>

ParseAgainWithoutLLM ==
    /\ pc = "parsed"
    /\ reparse' = [done |-> TRUE, resp |-> NoResponse,
                   out |-> Parse(FALSE, NoResponse, instruction)]
    /\ llm' = FALSE
    /\ pc' = "returned"
    /\ UNCHANGED <<server, scope, agentVars, browser, executor, mode, instruction,
                   actions, idx, result, clock, execLog, diagLog, browserCalls,
                   direct, parseLog, cli, first, sched>>

\* await parser.parse(instruction), again, on the same parser
ParseAgain ==
    /\ pc = "parsed"
    /\ \E resp \in (IF llm THEN ReparseResponses ELSE {NoResponse}) :
          reparse' = [done |-> TRUE, resp |-> resp,
                      out |-> Parse(llm, resp, instruction)]
    /\ pc' = "returned"
    /\ UNCHANGED <<server, scope, agentVars, llm, browser, executor, mode, instruction,
                   actions, idx, result, clock, execLog, diagLog, browserCalls,
                   direct, parseLog, cli, first, sched>>

NextParse ==
    \/ ParseCall
    \/ ParseAgain

SpecParse == InitParse /\ [][NextParse]_vars

ParseTwiceSame ==
    (parseLog.done /\ reparse.done /\ (~llm \/ reparse.resp = parseLog.resp)) =>
        /\ reparse.out.raised = parseLog.out.raised
        /\ reparse.out.actions = parseLog.out.actions

MaxIterations == 3

\* str.strip() on tokens: leading and trailing blanks go.
Blank == " "

RECURSIVE LStrip(_)
LStrip(s) == IF s # <<>> /\ Head(s) = Blank THEN LStrip(Tail(s)) ELSE s

RECURSIVE RStrip(_)
RStrip(s) ==
    IF s # <<>> /\ s[Len(s)] = Blank THEN RStrip(SubSeq(s, 1, Len(s) - 1)) ELSE s

Strip(s) == RStrip(LStrip(s))

\* ["exit", "quit", "q"]
ExitKeywords == {<<"exit">>, <<"quit">>, <<"q">>}

\* The lines typed at the prompt.
CliInputs ==
    {<<"exit">>, <<"Quit">>, <<Blank, "q", Blank>>, <<>>, <<Blank>>,
     <<"Go to", "homepage">>, <<"exit", "now">>}

\* What execute_test returns to the loop: a finalized TestResult.
CliResults ==
    {[NewTestResult EXCEPT !.status = "passed", !.start_time = 1, !.end_time = 2],
     [NewTestResult EXCEPT !.status = "failed", !.start_time = 1, !.end_time = 2,
                           !.errors = <<NoActionsError>>],
     [NewTestResult EXCEPT !.status = "error", !.start_time = 1, !.end_time = 2,
                           !.errors = <<ErrorEntry("Test execution error", EmptyStr, "raised")>>]}

\* One entry of cli.events.
CliEvent(op, outcome, raw) == [op |-> op, outcome |-> outcome, raw |-> raw]

InitCLI ==
    /\ server = "MCPServer"
    /\ scope = NoScope
    /\ agent = NoAgent
    /\ steps = <<>>
    /\ agentResult = NoAgentResult
    /\ taskLog = <<>>
    /\ llm \in BOOLEAN
    /\ browser = NoBrowser
    /\ executor = FALSE
    /\ pc = "cli_enter"
    /\ mode = "cli"
    /\ instruction = <<>>
    /\ actions = <<>>
    /\ idx = 1
    /\ result = NoResult
    /\ clock = 1
    /\ execLog = <<>>
    /\ diagLog = <<>>
    /\ browserCalls = 0
    /\ parseLog = NoParse
    /\ direct = NoDirect
    /\ reparse = NoParse
    /\ cli = NoCli
    /\ first = NoFirst
    /\ sched = NoSched

\* `async with MCPServer(...) as server:` is start(); when it raises the loop
\* never runs.
CliEnter ==
    /\ pc = "cli_enter"
    /\ \E failAt \in 0..4 :
          /\ browser' = BrowserStart(failAt)
          /\ executor' = (failAt = 0)
          /\ scope' = IF failAt = 0
                      THEN [state |-> "inside", raised |-> "none"]
                      ELSE [state |-> "left", raised |-> "start"]
          /\ pc' = IF failAt = 0 THEN "cli_read" ELSE "cli_failed"
    /\ UNCHANGED <<server, agentVars, llm, mode, instruction, actions, idx, result,
                   clock, execLog, diagLog, browserCalls, parseLog, direct, reparse,
                   cli, first, sched>>

CliReadKeepsBlanks ==
    /\ pc = "cli_read"
    /\ Len(SelectSeq(cli.events, LAMBDA e : e.op = "input")) < MaxIterations
    /\ \E outcome \in {"text", "interrupt", "eof"}, raw \in CliInputs :
          LET text == raw
              ev == CliEvent("input", outcome, IF outcome = "text" THEN raw ELSE <<>>)
              log(line) == [cli EXCEPT !.events = Append(@, ev),
                                       !.printed = Append(@, line)]
          IN  IF outcome = "interrupt"
              THEN /\ cli' = log("Interrupted by user. Goodbye!")
                   /\ pc' = "cli_exit"
                   /\ UNCHANGED instruction
              ELSE IF outcome = "eof"
              THEN /\ cli' = log("Error")
                   /\ pc' = "cli_read"
                   /\ UNCHANGED instruction
              ELSE IF LowerStr(text) \in ExitKeywords
              THEN /\ cli' = log("Goodbye!")
                   /\ pc' = "cli_exit"
                   /\ instruction' = text
              ELSE IF text = <<>>
              THEN /\ cli' = log("Please enter a test instruction.")
                   /\ pc' = "cli_read"
                   /\ instruction' = text
              ELSE /\ cli' = log("Executing test...")
                   /\ pc' = "cli_exec"
                   /\ instruction' = text
    /\ UNCHANGED <<server, scope, agentVars, llm, browser, executor, mode, actions,
                   idx, result, clock, execLog, diagLog, browserCalls, parseLog,
                   direct, reparse, first, sched>>

\* The head of one iteration: input(...).strip(), the exit keywords, the
\* empty instruction; KeyboardInterrupt breaks, any other exception (EOFError)
\* is printed and the loop goes on.
CliRead ==
    /\ pc = "cli_read"
    /\ Len(SelectSeq(cli.events, LAMBDA e : e.op = "input")) < MaxIterations
    /\ \E outcome \in {"text", "interrupt", "eof"}, raw \in CliInputs :
          LET text == Strip(raw)
              ev == CliEvent("input", outcome, IF outcome = "text" THEN raw ELSE <<>>)
              log(line) == [cli EXCEPT !.events = Append(@, ev),
                                       !.printed = Append(@, line)]
          IN  IF outcome = "interrupt"
              THEN /\ cli' = log("Interrupted by user. Goodbye!")
                   /\ pc' = "cli_exit"
                   /\ UNCHANGED instruction
              ELSE IF outcome = "eof"
              THEN /\ cli' = log("Error")
                   /\ pc' = "cli_read"
                   /\ UNCHANGED instruction
              ELSE IF LowerStr(text) \in ExitKeywords
              THEN /\ cli' = log("Goodbye!")
                   /\ pc' = "cli_exit"
                   /\ instruction' = text
              ELSE IF text = <<>>
              THEN /\ cli' = log("Please enter a test instruction.")
                   /\ pc' = "cli_read"
                   /\ instruction' = text
              ELSE /\ cli' = log("Executing test...")
                   /\ pc' = "cli_exec"
                   /\ instruction' = text
    /\ UNCHANGED <<server, scope, agentVars, llm, browser, executor, mode, actions,
                   idx, result, clock, execLog, diagLog, browserCalls, parseLog,
                   direct, reparse, first, sched>>

\* The rest of the iteration: execute_test and the printing of its result.
\* outcome "returned": all lines printed; "print_raises": a print raised an
\* exception before the status line; "interrupt": KeyboardInterrupt while
\* execute_test ran.
CliExecute ==
    /\ pc = "cli_exec"
    /\ \E outcome \in {"returned", "print_raises", "interrupt"}, r \in CliResults :
          LET ev == CliEvent("execute_test", outcome, instruction)
              lines == IF outcome = "interrupt" THEN <<"Interrupted by user. Goodbye!">>
                       ELSE IF outcome = "print_raises" THEN <<"Error">>
                       ELSE IF r.errors # <<>> THEN <<"Status", "Errors">>
                       ELSE <<"Status">>
          IN  /\ cli' = [events |-> Append(cli.events, ev),
                         calls |-> Append(cli.calls, instruction),
                         printed |-> cli.printed \o lines]
              /\ result' = IF outcome = "interrupt" THEN result ELSE r
              /\ pc' = IF outcome = "interrupt" THEN "cli_exit" ELSE "cli_read"
    /\ UNCHANGED <<server, scope, agentVars, llm, browser, executor, mode, instruction,
                   actions, idx, clock, execLog, diagLog, browserCalls, parseLog,
                   direct, reparse, first, sched>>

\* Leaving the `async with` block after the break: __aexit__ is stop().
CliExit ==
    /\ pc = "cli_exit"
    /\ \E failOn \in {"", "page", "context", "chromium", "playwright"} :
          /\ browser' = BrowserStop(browser, failOn)
          /\ scope' = [state |-> "left",
                       raised |-> IF StopRaises(browser, failOn) THEN "stop" ELSE "none"]
    /\ pc' = "cli_done"
    /\ UNCHANGED <<server, agentVars, llm, executor, mode, instruction, actions, idx,
                   result, clock, execLog, diagLog, browserCalls, parseLog, direct,
                   reparse, cli, first, sched>>

NextCLI ==
    \/ CliEnter
    \/ CliRead
    \/ CliExecute
    \/ CliExit

SpecCLI == InitCLI /\ [][NextCLI]_vars

\* What an event does to the loop by the claim: a keyboard interrupt, or a
\* line that is an exit keyword once stripped and lowered, ends it.
EndsLoop(e) ==
    \/ e.outcome = "interrupt"
    \/ e.op = "input" /\ e.outcome = "text" /\ LowerStr(Strip(e.raw)) \in ExitKeywords

\* An exception other than KeyboardInterrupt was raised inside the iteration.
RaisedInIteration(e) == e.outcome \in {"eof", "print_raises"}

\* The while loop of interactive_mode has been left.
LoopEnded == pc \in {"cli_exit", "cli_done"}

CountEvents(P(_)) == Len(SelectSeq(cli.events, P))
CountLines(line) == Len(SelectSeq(cli.printed, LAMBDA l : l = line))

InteractiveState ==
    LET n == Len(cli.events) IN
    \* the loop has ended exactly when the last event ends it
    /\ LoopEnded <=> (n > 0 /\ EndsLoop(cli.events[n]))
    /\ \A k \in 1..(n - 1) : ~EndsLoop(cli.events[k])
    \* after the loop the server is stopped
    /\ pc = "cli_done" => scope.state = "left"
    /\ scope.state = "left" => pc \in {"cli_done", "cli_failed"}
    \* execute_test is called only with the non-empty line just read
    /\ Len(cli.calls) = CountEvents(LAMBDA e : e.op = "execute_test")
    /\ \A k \in 1..Len(cli.calls) : cli.calls[k] # <<>> /\ Strip(cli.calls[k]) = cli.calls[k]
    /\ \A k \in 1..n :
          cli.events[k].op = "execute_test" =>
             /\ k > 1
             /\ cli.events[k - 1].op = "input"
             /\ cli.events[k - 1].outcome = "text"
             /\ Strip(cli.events[k - 1].raw) # <<>>
             /\ cli.events[k].raw = Strip(cli.events[k - 1].raw)
    \* an interruption prints its goodbye and no error or result line
    /\ CountLines("Error") = CountEvents(RaisedInIteration)
    /\ CountLines("Status") = CountEvents(LAMBDA e : e.outcome = "returned")
    /\ CountLines("Errors") <= CountLines("Status")
    /\ (n > 0 /\ cli.events[n].outcome = "interrupt") =>
          cli.printed[Len(cli.printed)] = "Interrupted by user. Goodbye!"
    \* any other exception is printed and the loop goes on
    /\ (n > 0 /\ RaisedInIteration(cli.events[n])) =>
          /\ pc = "cli_read"
          /\ cli.printed[Len(cli.printed)] = "Error"

\* Once the loop has ended the one thing that happens is stop().
InteractiveStep ==
    pc = "cli_exit" => (pc' = "cli_done" /\ scope'.state = "left" /\ cli' = cli)

\* C22: the interactive loop ends exactly when an exit keyword is read or a
\* keyboard interrupt occurs, the server is then stopped and the interruption
\* is reported as no failure; an empty instruction never reaches
\* execute_test; any other exception raised in an iteration is printed and
\* the loop goes on with the next instruction.
C22_InteractiveLoop == []InteractiveState /\ [][InteractiveStep]_vars

\* The loop printed an exception, then ran a test that a keyboard interrupt
\* cut short, and the server was stopped.
C22_Witness ==
    /\ pc = "cli_done"
    /\ Len(cli.events) = 3
    /\ cli.events[1].outcome = "eof"
    /\ cli.events[2].raw = <<"Go to", "homepage">>
    /\ cli.events[3].op = "execute_test"
    /\ cli.events[3].outcome = "interrupt"
    /\ scope.state = "left"

\* The keyword rules of _parse_with_rules in the order of its if/elif chain,
\* and the kinds of Action each one appends.
RuleKeywords ==
    <<{"go to", "navigate to", "visit", "open"},
      {"search for", "search"},
      {"add to cart", "add product"},
      {"checkout", "proceed to checkout"},
      {"click"},
      {"select", "choose"},
      {"verify", "check", "assert"},
      {"screenshot", "capture"}>>

RuleKinds ==
    <<{"navigate", "go_to_cart"}, {"search"}, {"add_to_cart"}, {"checkout"},
      {"click"}, {"select_variant"}, {"verify_url", "verify_text"}, {"screenshot"}>>

\* The rules a step matches, and the first of them (0: none).
RulesMatched(step) ==
    {r \in 1..Len(RuleKeywords) : AnyIn(RuleKeywords[r], LowerStr(step))}

FirstRule(step) ==
    IF RulesMatched(step) = {} THEN 0
    ELSE CHOOSE r \in RulesMatched(step) : \A q \in RulesMatched(step) : r <= q

\* The actions of the steps that match a rule, the other steps left out.
RECURSIVE ActionsOfMatched(_)
ActionsOfMatched(st) ==
    IF st = <<>> THEN <<>>
    ELSE (IF FirstRule(Head(st)) = 0 THEN <<>> ELSE ParseStep(Head(st)))
         \o ActionsOfMatched(Tail(st))

\* C23: rule-based parsing is first-match-wins per step.  Each step yields at
\* most one Action, of a kind of the first rule it matches in the order
\* navigate, search, add-to-cart, checkout, click, select/choose,
\* verify/check/assert, screenshot/capture; a step that matches no rule
\* yields none, and the result is what the matching steps alone yield.
C23_FirstMatchWins ==
    RulesUsed =>
        /\ \A n \in 1..Len(StepsOf) :
              LET acts == ParseStep(StepsOf[n])
                  rule == FirstRule(StepsOf[n])
              IN  /\ Len(acts) <= 1
                  /\ rule = 0 => acts = <<>>
                  /\ acts # <<>> => acts[1].action_type \in RuleKinds[rule]
        /\ parseLog.out.actions = ActionsOfMatched(StepsOf)

\* Three steps: one matching the navigate and the search rule, one matching
\* no rule, one matching the checkout, click and verify rules.
C23_Witness ==
    /\ RulesUsed
    /\ Len(StepsOf) = 3
    /\ Cardinality(RulesMatched(StepsOf[1])) = 2
    /\ FirstRule(StepsOf[2]) = 0
    /\ Cardinality(RulesMatched(StepsOf[3])) = 3
    /\ Len(parseLog.out.actions) = 2
    /\ parseLog.out.actions[1].action_type = "navigate"
    /\ parseLog.out.actions[2].action_type = "checkout"

\* The model's response was read as a JSON array whose elements are all
\* JSON objects.
ArrayOfObjects(resp) ==
    /\ resp.kind = "array"
    /\ ~ExtractJson(resp).raised
    /\ \A n \in 1..Len(resp.items) : resp.items[n].obj

\* An object the claim calls valid: it has an action_type, and a recognized one.
ValidObject(item) ==
    item.obj /\ Has(item.d, "action_type") /\ item.d["action_type"] \in ActionType

\* The Action an object stands for: its parameters and description, or the
\* defaults {} and "".
ActionOfObject(item) ==
    Action(item.d["action_type"],
           IF "parameters" \in DOMAIN item.d THEN item.d["parameters"] ELSE EmptyDict,
           IF "description" \in DOMAIN item.d THEN item.d["description"] ELSE EmptyStr)

\* C24: LLM partial success.  For a JSON array of objects the model returned,
\* parse returns one Action per object that has a recognized action_type, in
\* the order of the array, and nothing for the other objects; there is no
\* fallback to the rules.
C24_PartialSuccess ==
    (parseLog.done /\ llm /\ ArrayOfObjects(parseLog.resp)) =>
        LET valid == SelectSeq(parseLog.resp.items, ValidObject) IN
        /\ ~parseLog.out.raised
        /\ ~parseLog.out.fallback
        /\ Len(parseLog.out.actions) = Len(valid)
        /\ \A n \in 1..Len(valid) : parseLog.out.actions[n] = ActionOfObject(valid[n])

\* An array of an object of unknown kind followed by a navigate object was
\* parsed into the one navigate Action.
C24_Witness ==
    /\ parseLog.done
    /\ llm
    /\ ArrayOfObjects(parseLog.resp)
    /\ Len(parseLog.resp.items) = 2
    /\ ~ValidObject(parseLog.resp.items[1])
    /\ ValidObject(parseLog.resp.items[2])
    /\ Len(parseLog.out.actions) = 1
    /\ parseLog.out.actions[1].action_type = "navigate"

\* The diagnostic screenshot of the one failure was taken: the page was open
\* and page.screenshot completed.
DiagnosticTaken(k) == execLog[k].page = "open" /\ diagLog[1].beh = "ok"

\* C25: diagnostic screenshot on failure.  When action k is the first to
\* return an 'error' result, whatever its kind, exactly one diagnostic
\* screenshot is attempted, for step k, and no further action runs; when it
\* is taken, the path named error_step_k is the last element of screenshots;
\* when it raises, nothing is added; either way errors holds the one entry of
\* action k, actions_executed the k results, and the status is 'failed'.
\* Without an 'error' result no diagnostic screenshot is attempted.
C25_DiagnosticScreenshot ==
    /\ \A k \in 1..Len(execLog) :
          FirstErrorAt(k) =>
             /\ Len(execLog) = k
             /\ Len(diagLog) = 1
             /\ diagLog[1].step = k
             /\ result.screenshots =
                   EmittedShots(k) \o (IF DiagnosticTaken(k)
                                       THEN <<ScreenshotPath(ErrorStepName(k))>>
                                       ELSE <<>>)
             /\ result.errors = <<ActionFailedError(actions[k], execLog[k].out.result)>>
             /\ Len(result.actions_executed) = k
             /\ result.actions_executed[k] = execLog[k].out.result
             /\ ReturnedResult => result.status = "failed"
    /\ (\A n \in 1..Len(execLog) : ~ErrorAt(n)) => diagLog = <<>>

\* The second action, a screenshot, failed and the diagnostic screenshot
\* raised as well: the run returned 'failed' with one error.
C25_Witness ==
    /\ ReturnedResult
    /\ FirstErrorAt(2)
    /\ actions[2].action_type = "screenshot"
    /\ execLog[2].page = "open"
    /\ diagLog[1].beh = "raise"
    /\ result.status = "failed"
    /\ Len(result.errors) = 1

\* execute_test has returned on a server whose start() was never called.
UnstartedTestReturned ==
    /\ pc = "returned"
    /\ \/ server = "MCPServer" /\ mode = "test" /\ ~browser.exists
       \/ server = "AgentMCPServer" /\ mode = "agent_test" /\ ~agent.exists

\* C26: use before start.  execute_test on an MCPServer or AgentMCPServer
\* whose start() was never called returns a finalized result: 'error' with
\* one error message when there was an action, or the task, to execute (on
\* the MCPServer 'failed' when nothing was parsed), with nothing executed and
\* no browser operation performed.
C26_UseBeforeStart ==
    UnstartedTestReturned =>
        /\ execLog = <<>>
        /\ diagLog = <<>>
        /\ taskLog = <<>>
        /\ browserCalls = 0
        /\ server = "MCPServer" =>
              /\ result.start_time # None
              /\ result.end_time # None
              /\ result.actions_executed = <<>>
              /\ result.screenshots = <<>>
              /\ Len(result.errors) = 1
              /\ result.status = (IF parseLog.out.actions # <<>> THEN "error" ELSE "failed")
        /\ server = "AgentMCPServer" =>
              /\ agentResult.start_time # None
              /\ agentResult.end_time # None
              /\ agentResult.tasks_executed = <<>>
              /\ agentResult.screenshots = <<>>
              /\ Len(agentResult.errors) = 1
              /\ agentResult.status = "error"

\* An MCPServer that was never started parsed three actions and returned
\* 'error' without executing one.
C26_Witness ==
    /\ UnstartedTestReturned
    /\ server = "MCPServer"
    /\ Len(parseLog.out.actions) = 3
    /\ result.status = "error"
    /\ result.errors[1].kind = "Test execution error"

\* The model's response parses and holds no object that stands for an
\* Action: the empty array, or objects of unrecognized or missing action_type.
YieldsNoAction(resp) ==
    /\ ArrayOfObjects(resp)
    /\ \A n \in 1..Len(resp.items) : ~ValidObject(resp.items[n])

\* C27: under the LLM strategy a response that parses but yields no Action
\* makes parse return the empty sequence without falling back to the rules,
\* and execute_test return 'failed' with the one error 'No actions could be
\* parsed from instruction' and nothing executed, whatever the rules would
\* have produced for the instruction.
C27_EmptyLLMResultNoFallback ==
    (parseLog.done /\ mode = "test" /\ llm /\ YieldsNoAction(parseLog.resp)) =>
        /\ ~parseLog.out.raised
        /\ ~parseLog.out.fallback
        /\ parseLog.out.actions = <<>>
        /\ ReturnedResult
        /\ result.status = "failed"
        /\ result.errors = <<NoActionsError>>
        /\ result.actions_executed = <<>>
        /\ result.end_time # None
        /\ execLog = <<>>

\* The model answered with one object of unknown kind to an instruction the
\* rules parse into three actions, and execute_test returned 'failed'.
C27_Witness ==
    /\ ReturnedResult
    /\ mode = "test"
    /\ llm
    /\ YieldsNoAction(parseLog.resp)
    /\ Len(parseLog.resp.items) = 1
    /\ Len(ParseWithRules(instruction)) = 3
    /\ result.status = "failed"

(***************************************************************************)
(* server.py: execute_test, then execute_actions on the actions it parsed, *)
(* on the same server and browser session.                                 *)
(***************************************************************************)
InitEquiv ==
    /\ Init
    /\ server = "MCPServer"

\* execute_actions(actions) with the list execute_test has just run; the
\* earlier run is set aside in `first` and the logs start again.
ExecuteActionsAgain ==
    /\ pc = "returned"
    /\ mode = "test"
    /\ actions # <<>>
    /\ ~first.done
    /\ first' = [done |-> TRUE, result |-> result, execLog |-> execLog,
                 diagLog |-> diagLog]
    /\ mode' = "actions"
    /\ result' = NewTestResult
    /\ idx' = 1
    /\ execLog' = <<>>
    /\ diagLog' = <<>>
    /\ pc' = "created"
    /\ UNCHANGED <<server, scope, agentVars, llm, browser, executor, instruction,
                   actions, clock, browserCalls, parseLog, direct, reparse, cli,
                   sched>>

NextEquiv ==
    \/ Start
    \/ ExecuteTestCall
    \/ Begin
    \/ ParseInstruction
    \/ ExecuteNext
    \/ Finalize
    \/ ExecuteActionsAgain

SpecEquiv == InitEquiv /\ [][NextEquiv]_vars

\* What the browser did with each executed action and with the diagnostic
\* screenshot.
BehavioursOf(log) == [n \in 1..Len(log) |-> log[n].beh]

\* execute_actions has returned after an execute_test of the same non-empty
\* list that met the same browser behaviour.
BothReturned ==
    /\ first.done
    /\ ReturnedResult
    /\ mode = "actions"
    /\ BehavioursOf(execLog) = BehavioursOf(first.execLog)
    /\ BehavioursOf(diagLog) = BehavioursOf(first.diagLog)

\* C28 as stated: on a non-empty list and the same browser behaviour
\* execute_actions and execute_test return the same status,
\* actions_executed, screenshots and errors.
C28_SameResult ==
    BothReturned =>
        /\ result.status = first.result.status
        /\ result.actions_executed = first.result.actions_executed
        /\ result.screenshots = first.result.screenshots
        /\ result.errors = first.result.errors

\* C28, amended: the two methods return the same status, actions_executed
\* and screenshots, and the same errors unless an exception reached the
\* outermost handler; then both return 'error' with one message of the same
\* exception text, prefixed 'Test execution error' by execute_test and
\* 'Execution error' by execute_actions.
C28_SameResultButPrefix ==
    BothReturned =>
        /\ result.status = first.result.status
        /\ result.actions_executed = first.result.actions_executed
        /\ result.screenshots = first.result.screenshots
        /\ result.status # "error" => result.errors = first.result.errors
        /\ result.status = "error" =>
              /\ Len(result.errors) = 1
              /\ Len(first.result.errors) = 1
              /\ result.errors[1].kind = "Execution error"
              /\ first.result.errors[1].kind = "Test execution error"
              /\ result.errors[1].error = first.result.errors[1].error
              /\ result.errors[1].description = first.result.errors[1].description

\* Both methods ran navigate, search and a failing screenshot and returned
\* 'failed' with the diagnostic screenshot taken.
C28_Witness ==
    /\ BothReturned
    /\ Len(actions) = 3
    /\ Len(execLog) = 3
    /\ result.status = "failed"
    /\ Len(result.errors) = 1
    /\ Len(result.screenshots) = 1
    /\ result.errors = first.result.errors

\* An empty run of the MCPServer: the call has returned and the executor was
\* never asked to execute an action.
EmptyRun == ReturnedResult /\ execLog = <<>>

\* C29: execute_actions with an empty list returns 'passed' with no errors,
\* no executed actions and no call of the executor, started or not, whereas
\* execute_test of an instruction that parses to the empty list returns
\* 'failed'; an empty run of the MCPServer is reported as passed only by
\* execute_actions on the empty list.
C29_EmptyRun ==
    /\ (ReturnedResult /\ mode = "actions" /\ actions = <<>>) =>
          /\ result.status = "passed"
          /\ Passed(result)
          /\ result.errors = <<>>
          /\ result.actions_executed = <<>>
          /\ result.screenshots = <<>>
          /\ result.end_time # None
          /\ execLog = <<>>
          /\ browserCalls = 0
    /\ (ReturnedResult /\ mode = "test" /\ parseLog.out.actions = <<>>) =>
          /\ result.status = "failed"
          /\ ~Passed(result)
          /\ execLog = <<>>
    /\ (EmptyRun /\ result.status = "passed") =>
          (mode = "actions" /\ actions = <<>>)

\* execute_actions([]) returned 'passed' on a server that was never started.
C29_Witness ==
    /\ ReturnedResult
    /\ mode = "actions"
    /\ actions = <<>>
    /\ ~executor
    /\ ~browser.exists
    /\ result.status = "passed"


-----------------------------------------------------------------------------
\* Postal-code scheduling: database.py (postal_codes table) and main.py
\* (process_continuous).  A separate specification, SpecDB, runs the loop.

\* Bound on the searches one behaviour makes (continuous mode has no limit).
MaxSearches == 4

\* last_searched_at of a code that was never searched (SQL NULL).
Null == 0

\* Codes import_postcodes.py can have inserted; only non-empty codes are
\* inserted.  41006 and 41008 are at the same distance from the reference.
PostalCodes == {"41006", "41008", "41010"}

\* Default reference_cp of get_next_postal_code, after int().
ReferenceCp == 41007

\* CAST(codigo_postal AS INTEGER).
CastInt(codigo) ==
    CASE codigo = "41006" -> 41006
      [] codigo = "41008" -> 41008
      [] codigo = "41010" -> 41010
      [] OTHER -> 0

Abs(n) == IF n < 0 THEN 0 - n ELSE n

\* Stamps earlier runs can have left in the table.
InitialStamps == {Null, 1, 2}

\* The wall clock when process_continuous is called: after every stamp
\* already in the table.
InitialNow == 3

\* max_iterations: None (and 0) mean no limit, both are falsy in the test of
\* the loop; modelled as 0.
MaxIterationsArgs == {0, 3}

\* The row of a code as import_postcodes.py and earlier runs leave it.
InitialRow(stamp) ==
    [last_searched_at |-> stamp,
     results_count |-> 0,
     total_searches |-> IF stamp = Null THEN 0 ELSE 1]

\* ORDER BY CASE WHEN last_searched_at IS NULL THEN 0 ELSE 1 END,
\*          last_searched_at ASC, ABS(CAST(codigo_postal AS INTEGER) - ?) ASC:
\* row a sorts strictly before row b.
SortsBefore(table, a, b) ==
    LET k1(c) == IF table[c].last_searched_at = Null THEN 0 ELSE 1
        k2(c) == table[c].last_searched_at
        k3(c) == Abs(CastInt(c) - ReferenceCp)
    IN  \/ k1(a) < k1(b)
        \/ k1(a) = k1(b) /\ k2(a) < k2(b)
        \/ k1(a) = k1(b) /\ k2(a) = k2(b) /\ k3(a) < k3(b)

GetNextPostalCodeNearestFirst(table) ==
    {c \in DOMAIN table :
        \A d \in DOMAIN table :
            Abs(CastInt(d) - ReferenceCp) >= Abs(CastInt(c) - ReferenceCp)}

\* get_next_postal_code: the rows LIMIT 1 can return; rows equal on the three
\* keys come in an order SQLite does not fix.  The empty set is None.
GetNextPostalCode(table) ==
    {c \in DOMAIN table : \A d \in DOMAIN table : ~SortsBefore(table, d, c)}

\* update_postal_code_search: stamp, results_count, total_searches + 1.
UpdatePostalCodeSearch(table, codigo, results_count, stamp) ==
    [table EXCEPT ![codigo] =
        [last_searched_at |-> stamp,
         results_count |-> results_count,
         total_searches |-> @.total_searches + 1]]

\* datetime.now() is the naive local wall-clock time: it normally advances
\* between two iterations (they are at least 2 s apart), and it steps back
\* when the clock is set back (end of daylight saving time, a clock
\* correction).
ClockReads(now) == {now + 1, 1}

InitDB ==
    /\ server = "MCPServer"
    /\ scope = NoScope
    /\ agent = NoAgent
    /\ steps = <<>>
    /\ agentResult = NoAgentResult
    /\ taskLog = <<>>
    /\ llm = FALSE
    /\ browser = NoBrowser
    /\ executor = FALSE
    /\ pc = "db_init"
    /\ mode = "db"
    /\ instruction = <<>>
    /\ actions = <<>>
    /\ idx = 1
    /\ result = NoResult
    /\ clock = 1
    /\ execLog = <<>>
    /\ diagLog = <<>>
    /\ browserCalls = 0
    /\ parseLog = NoParse
    /\ direct = NoDirect
    /\ reparse = NoParse
    /\ cli = NoCli
    /\ first = NoFirst
    /\ \E codes \in SUBSET PostalCodes, max_iterations \in MaxIterationsArgs :
          \E stamps \in [codes -> InitialStamps] :
              sched = [table |-> [c \in codes |-> InitialRow(stamps[c])],
                       now |-> InitialNow,
                       back |-> FALSE,
                       max_iterations |-> max_iterations,
                       iteration |-> 0,
                       log |-> <<>>]

dbUnchanged ==
    UNCHANGED <<server, scope, agentVars, llm, browser, executor, mode, instruction,
                actions, idx, result, clock, execLog, diagLog, browserCalls,
                parseLog, direct, reparse, cli, first>>

\* process_continuous up to the loop: with no postal code in the table it
\* returns before the loop.
ProcessContinuous ==
    /\ pc = "db_init"
    /\ pc' = IF Cardinality(DOMAIN sched.table) = 0 THEN "db_empty" ELSE "db_loop"
    /\ sched' = [sched EXCEPT !.iteration = 0]
    /\ dbUnchanged

\* `if max_iterations and iteration >= max_iterations: break`.
LimitReached ==
    sched.max_iterations # 0 /\ sched.iteration >= sched.max_iterations

ReachLimit ==
    /\ pc = "db_loop"
    /\ LimitReached
    /\ pc' = "db_limit"
    /\ UNCHANGED sched
    /\ dbUnchanged

\* One iteration of the loop past the limit test: select, search, stamp.
\* The search is found (search_postcode returned), failed (an Exception,
\* handled by stamping zero results) or escaped (an exception that leaves
\* process_continuous: KeyboardInterrupt, which main() catches, a
\* cancellation, or update_postal_code_search raising in the handler; the
\* code is not stamped).
SearchNext ==
    /\ pc = "db_loop"
    /\ ~LimitReached
    /\ sched.iteration < MaxSearches
    /\ LET next == GetNextPostalCode(sched.table)
           before == [c \in DOMAIN sched.table |-> sched.table[c].last_searched_at]
       IN  IF next = {}
           THEN /\ pc' = "db_none"
                /\ UNCHANGED sched
           ELSE \E postal_code \in next, outcome \in {"found", "failed", "escaped"} :
                   IF outcome = "escaped"
                   THEN /\ pc' = "db_escaped"
                        /\ sched' = [sched EXCEPT
                              !.iteration = @ + 1,
                              !.log = Append(@, [code |-> postal_code,
                                                 before |-> before,
                                                 outcome |-> outcome,
                                                 stamp |-> Null])]
                   ELSE \E stamp \in ClockReads(sched.now) :
                        /\ pc' = "db_loop"
                        /\ sched' = [sched EXCEPT
                              !.table = UpdatePostalCodeSearch(
                                            @, postal_code,
                                            IF outcome = "found" THEN 1 ELSE 0,
                                            stamp),
                              !.now = stamp,
                              !.back = @ \/ stamp <= sched.now,
                              !.iteration = @ + 1,
                              !.log = Append(@, [code |-> postal_code,
                                                 before |-> before,
                                                 outcome |-> outcome,
                                                 stamp |-> stamp])]
    /\ dbUnchanged

NextDB ==
    \/ ProcessContinuous
    \/ ReachLimit
    \/ SearchNext

SpecDB == InitDB /\ [][NextDB]_vars

\* Every selection took a never-searched code while one existed, otherwise a
\* code with the oldest last_searched_at.
SelectionRight ==
    \A i \in 1..Len(sched.log) :
        LET e == sched.log[i]
        IN  IF \E c \in DOMAIN e.before : e.before[c] = Null
            THEN e.before[e.code] = Null
            ELSE \A c \in DOMAIN e.before : e.before[e.code] <= e.before[c]

\* The iteration just made, found or failed, stamped the code it selected.
LastIterationStamped ==
    Len(sched.log) > 0 =>
        LET e == sched.log[Len(sched.log)]
        IN  e.outcome \in {"found", "failed"} =>
                /\ e.stamp # Null
                /\ sched.table[e.code].last_searched_at = e.stamp
                /\ sched.table[e.code].results_count =
                       (IF e.outcome = "found" THEN 1 ELSE 0)

\* total_searches counts the searches of a code that were stamped.
SearchesCounted ==
    \A c \in DOMAIN sched.table :
        sched.table[c].total_searches =
            (IF Len(sched.log) > 0 /\ sched.log[1].before[c] # Null THEN 1
             ELSE IF Len(sched.log) = 0
                     /\ sched.table[c].last_searched_at # Null THEN 1
             ELSE 0)
            + Cardinality({i \in 1..Len(sched.log) :
                              /\ sched.log[i].code = c
                              /\ sched.log[i].outcome # "escaped"})

\* Between two consecutive searches of a code every other code of the table
\* is searched.
BetweenTwoSearches ==
    \A i, j \in 1..Len(sched.log) :
        (/\ i < j
         /\ sched.log[i].code = sched.log[j].code
         /\ \A k \in (i + 1)..(j - 1) : sched.log[k].code # sched.log[i].code)
        => \A c \in DOMAIN sched.table \ {sched.log[i].code} :
               \E k \in (i + 1)..(j - 1) : sched.log[k].code = c

\* With a non-empty table get_next_postal_code returned a code.
NeverNone == pc # "db_none"

LoopLeft == pc \in {"db_limit", "db_none", "db_escaped"}

====
